---- MODULE Spec2Model ----
(***************************************************************************)
(* Element identification with fallback (docugen.desktop).                 *)
(*                                                                         *)
(* The FallbackManager singleton (fallback_manager.py), its timeout        *)
(* wrapper (timeout_wrapper.py), its metrics (fallback_metrics.py) and the *)
(* annotation orchestrator with its ElementCache                           *)
(* (annotation_orchestrator.py, annotation_cache.py).                      *)
(* Further down: VisionCache (vision_cache.py), StepDetector               *)
(* (step_detector.py), clip_bounds_to_image (coordinate_transforms.py),    *)
(* the accessibility lookups, the metadata routes and CaptureSession       *)
(* (capture_session.py), each under a specification of its own.            *)
(*                                                                         *)
(* Time: `now` is time.time() in whole seconds and is advanced by Tick     *)
(* only; latencies are milliseconds in abstract ticks and do not move      *)
(* `now`.  The accessibility backend and the vision service are            *)
(* collaborators: what they answer and how long they take are inputs.      *)
(***************************************************************************)
EXTENDS Integers, Sequences, FiniteSets, TLC

\* ---------------------------------------------------------------- bounds
MaxRequests == 3
MaxPathRequests == 2
MaxWorkerRequests == 2
MaxCacheOps == 4
VisionCapBound == 2
MaxDetectorOps == 3
DebounceBound == 2
ClipBound == 2
MaxEditSteps == 3
MaxEdits == 1
MaxSessionOps == 3
MaxAnalyses == 2
MaxEvents == 3
AnalyzerImageCount == 2
TreeNodes == 5
MaxTime == 3
MaxRetriesBound == 2
TtlBound == 1
TimeoutTicks == 2
VisionLatency == 1

\* ------------------------------------------------------- program constants
default_confidence == 90
default_visual_confidence == 50
visual_confidence_cap == 70
confidence_threshold == 80
coord_bucket == 10
ssim_threshold == 90
desktop_threshold == 87
MAX_REASONABLE == 10000
MIN_REASONABLE == -10000
max_depth == 20
max_size == 2

\* ---------------------------------------------------------------- inputs
NoApp == "<none>"
Apps == {"SlowApp", "OtherApp"}
AppArgs == Apps \cup {NoApp}
Platforms == {"windows", "macos"}
Hosts == {"windows", "macos"}
Threads == {"main", "worker"}
\* what backend.get_element_at_point does when it is left to finish
AccessOutcomes == {"element", "none", "permission", "notfound", "error"}
VisionOutcomes == {"element", "none", "raises"}
AdapterConfs == {50, default_confidence}
VisionConfs == {default_visual_confidence, 95}
Xs == {100, 105, 110}
Ys == {200}

VARIABLES
    cfg,                 \* FallbackConfig of the singleton manager
    hostOS,              \* platform.system() / get_os() of the process
    now,                 \* time.time(), seconds
    app_timeout_counts,  \* FallbackManager._app_timeout_counts
    app_support_cache,   \* FallbackManager._app_support_cache (keys; every value is False)
    cache_timestamps,    \* FallbackManager._cache_timestamps
    entries,             \* MetricsCollector._entries
    cache_hits,          \* MetricsCollector._cache_hits
    cache_misses,        \* MetricsCollector._cache_misses
    workers,             \* threads started by the timeout code, by id
    containers,          \* result_container / result[0] of each wrapper call
    element_cache,       \* ElementCache._cache (OrderedDict, LRU first)
    element_stats,       \* ElementCache._stats
    nreq,                \* identification requests issued so far
    last,                \* what the latest request did and returned
    vision,              \* VisionCache: _cache, _ttl, _max_entries, _hits, _misses
    detector,            \* StepDetector: _config, _before, _steps, _last_step_time
    session,             \* CaptureSession: _state, its workflow, its hotkey listener
    op                   \* the latest call made on a component, and its result

vars == <<cfg, hostOS, now, app_timeout_counts, app_support_cache,
          cache_timestamps, entries, cache_hits, cache_misses, workers,
          containers, element_cache, element_stats, nreq, last,
          vision, detector, session, op>>

\* the state of the manager and of the threads it starts
managerVars == <<cfg, hostOS, app_timeout_counts, app_support_cache,
                 cache_timestamps, entries, cache_hits, cache_misses,
                 workers, containers, last>>

\* the components an identification request does not touch
componentVars == <<vision, detector, session, op>>

\* ------------------------------------------------------------- data model
\* CaptureSession.__init__: an idle session over a workflow that has not
\* started, no hotkey listener, and no call or callback in progress.
\* captures is DesktopWorkflow._captures, detected the steps of the
\* workflow's own StepDetector.
NewSession ==
    [state |-> "idle", started |-> FALSE, captures |-> <<>>,
     detected |-> <<>>, listener |-> FALSE, main |-> "idle",
     hotkey |-> "idle"]

NullResult ==
    [present |-> FALSE, source |-> "none", fallback_used |-> FALSE,
     fallback_reason |-> "none", confidence |-> 0, tag |-> 0]

ElementMetadata(src, fb, reason, conf, tag) ==
    [present |-> TRUE, source |-> src, fallback_used |-> fb,
     fallback_reason |-> reason, confidence |-> conf, tag |-> tag]

MetricEntry(app, src, ok, latency, reason) ==
    [app_name |-> app, source |-> src, success |-> ok,
     latency_ms |-> latency, fallback_reason |-> reason]

FallbackConfig(retries, ttl, vfe) ==
    [timeout_ms |-> TimeoutTicks, cache_ttl_seconds |-> ttl,
     max_retries |-> retries, visual_fallback_enabled |-> vfe]

\* durations a backend query can take, relative to the manager's timeout
AdapterDurations == {1, cfg.timeout_ms, cfg.timeout_ms + 1}

\* the record kept of the latest request: what it was, which way it went,
\* what it called and what it returned
NoLast ==
    [kind |-> "none", app |-> NoApp, thread |-> "main", shot |-> FALSE,
     mark |-> "none", count_before |-> 0, backoff |-> FALSE,
     denied |-> FALSE,
     attempted |-> FALSE, adapter_invoked |-> FALSE, outcome |-> "skipped",
     vision_calls |-> 0, vision_outcome |-> "skipped",
     blocked_ms |-> 0, timed_out |-> FALSE, raised |-> FALSE,
     entries_added |-> 0, threads_started |-> 0, abandoned |-> FALSE,
     cache_hit |-> FALSE, looked_up |-> FALSE, key |-> <<>>,
     result |-> NullResult, shown |-> "none", render_vision_calls |-> 0,
     render_vision_outcome |-> "skipped"]

\* ------------------------------------------------------ FallbackManager
\* The manager's mutable state, threaded through the steps of one call.
ManagerState ==
    [counts |-> app_timeout_counts, support |-> app_support_cache,
     ts |-> cache_timestamps, entries |-> entries, hits |-> cache_hits,
     misses |-> cache_misses, workers |-> workers, containers |-> containers]

Min(a, b) == IF a <= b THEN a ELSE b

TtlExceeded_AtLimit(age) == age >= cfg.cache_ttl_seconds

\* time.time() - timestamp > cache_ttl_seconds
TtlExceeded(age) == age > cfg.cache_ttl_seconds

\* _is_app_cached_unsupported: answer and the state it leaves
IsAppCachedUnsupported(S, app) ==
    IF app \notin S.support
    THEN [hit |-> FALSE, mark |-> "none", st |-> S]
    ELSE IF TtlExceeded(now - S.ts[app])
         THEN [hit |-> FALSE, mark |-> "expired",
               st |-> [S EXCEPT !.support = @ \ {app}, !.ts[app] = 0]]
         ELSE [hit |-> TRUE, mark |-> "valid", st |-> S]

\* _cache_app_unsupported
CacheAppUnsupported(S, app) ==
    [S EXCEPT !.support = @ \cup {app}, !.ts[app] = now]

\* record_event
RecordEvent(S, app, src, ok, latency, reason) ==
    [S EXCEPT !.entries = Append(@, MetricEntry(app, src, ok, latency, reason))]

BackoffActive_Late(S, app) ==
    app # NoApp /\ S.counts[app] > cfg.max_retries

\* "if app_name and counts.get(app_name, 0) >= max_retries"
BackoffActive(S, app) ==
    app # NoApp /\ S.counts[app] >= cfg.max_retries

ContainerOf_Shared(id) == <<id[1], 0>>

\* the container a wrapper call reads and its worker writes: a fresh one
\* per call (result_container and result are locals of the call)
ContainerOf(id) == id

FreshContainer == [completed |-> FALSE, out |-> "none", conf |-> 0, tag |-> 0]

\* how long thread.join(timeout) keeps the caller
JoinWait(d, timeout) == Min(d, timeout)

\* the timer the macOS backend arms around its permission check and around
\* its element search: with_timeout(0.1), the default of timeout_ms
own_timer_ms == TimeoutTicks

\* how long a call under setitimer(ITIMER_REAL, timeout) keeps the caller.
\* There is one ITIMER_REAL per process: when the backend arms its own
\* timer before the caller's expires (own_timer), the caller's is replaced,
\* and disarmed when the backend's with-block ends; what then bounds the
\* call is the backend's two timed blocks.
AlarmWait(d, timeout, own_timer) ==
    IF own_timer THEN Min(d, 2 * own_timer_ms) ELSE Min(d, timeout)

\* _windows_timeout: start a daemon thread, join(timeout), read the
\* container.  A thread still running at the deadline stays in `workers`;
\* the container of a call whose thread has finished dies with the call.
WindowsTimeout(S, id, ao, aconf, d) ==
    LET c == ContainerOf(id)
        C0 == IF c \in DOMAIN S.containers THEN S.containers
              ELSE S.containers @@ (c :> FreshContainer)
        inTime == d <= cfg.timeout_ms
        C1 == IF inTime
              THEN [C0 EXCEPT ![c] = [completed |-> TRUE, out |-> ao,
                                      conf |-> aconf, tag |-> id[2]]]
              ELSE C0
        C2 == IF inTime /\ c = id
              THEN [k \in DOMAIN C1 \ {c} |-> C1[k]]
              ELSE C1
        W1 == IF inTime THEN S.workers
              ELSE S.workers @@ (id :> "orphan")
    IN  [st |-> [S EXCEPT !.containers = C2, !.workers = W1],
         outcome |-> IF C1[c].completed THEN C1[c].out ELSE "timeout",
         conf |-> C1[c].conf, tag |-> C1[c].tag,
         invoked |-> TRUE, blocked |-> JoinWait(d, cfg.timeout_ms),
         threads |-> 1, abandoned |-> ~inTime]

\* _unix_timeout: SIGALRM handler in the calling thread; signal.signal
\* raises ValueError outside the main thread, before func is called
UnixTimeout(S, id, ao, aconf, d, thread, own_timer) ==
    IF thread # "main"
    THEN [st |-> S, outcome |-> "error", conf |-> 0, tag |-> 0,
          invoked |-> FALSE, blocked |-> 0, threads |-> 0,
          abandoned |-> FALSE]
    ELSE [st |-> S,
          outcome |-> IF d > cfg.timeout_ms /\ ~own_timer THEN "timeout"
                      ELSE ao,
          conf |-> aconf, tag |-> id[2],
          invoked |-> TRUE,
          blocked |-> AlarmWait(d, cfg.timeout_ms, own_timer),
          threads |-> 0, abandoned |-> FALSE]

\* with_timeout / _get_element_with_timeout
GetElementWithTimeout(S, id, ao, aconf, d, thread, own_timer) ==
    IF hostOS = "windows"
    THEN WindowsTimeout(S, id, ao, aconf, d)
    ELSE UnixTimeout(S, id, ao, aconf, d, thread, own_timer)

AccessCaught_Narrow(outcome) ==
    outcome \in {"timeout", "permission"}

\* the except clauses of _try_accessibility_api: which outcomes are handled
AccessCaught(outcome) ==
    outcome \in {"timeout", "permission", "notfound", "error"}

ResetTimeoutCount_Skipped(S, app) == S

\* "Reset timeout count on success"
ResetTimeoutCount(S, app) == [S EXCEPT !.counts[app] = 0]

\* the state the success branch or an except clause leaves
AfterAccess(S, app, outcome) ==
    CASE outcome = "element" /\ app # NoApp -> ResetTimeoutCount(S, app)
      [] outcome = "timeout" /\ app # NoApp ->
             [S EXCEPT !.counts[app] = @ + 1]
      [] outcome = "notfound" /\ app # NoApp -> CacheAppUnsupported(S, app)
      [] OTHER -> S

NoAccess(S, backoff, denied) ==
    [st |-> S, result |-> NullResult, invoked |-> FALSE, blocked |-> 0,
     timed_out |-> FALSE, raised |-> FALSE, backoff |-> backoff,
     denied |-> denied, threads |-> 0, abandoned |-> FALSE,
     outcome |-> "skipped"]

\* _try_accessibility_api
TryAccessibilityApi(S, in) ==
    IF BackoffActive(S, in.app) THEN NoAccess(S, TRUE, FALSE)
    ELSE IF in.platform = "macos" /\ ~in.perm THEN NoAccess(S, FALSE, TRUE)
    ELSE
      LET q == GetElementWithTimeout(S, <<"fm", in.tag>>, in.ao, in.aconf,
                                     in.d, in.thread, in.own_timer)
          handled == q.outcome \in {"element", "none"} \/ AccessCaught(q.outcome)
      IN  [st |-> IF handled THEN AfterAccess(q.st, in.app, q.outcome) ELSE q.st,
           result |-> IF q.outcome = "element"
                      THEN ElementMetadata("accessibility", FALSE, "none",
                                           q.conf, q.tag)
                      ELSE NullResult,
           invoked |-> q.invoked, blocked |-> q.blocked,
           timed_out |-> q.outcome = "timeout",
           raised |-> ~handled, backoff |-> FALSE, denied |-> FALSE,
           threads |-> q.threads, abandoned |-> q.abandoned,
           outcome |-> q.outcome]

\* analyze_with_fallback: "except Exception" turns a failure into None
VisionCaught(vo) == vo = "raises"

\* analyze_with_fallback: "Cap visual confidence"
CapVisual(conf) ==
    IF conf > visual_confidence_cap THEN visual_confidence_cap ELSE conf

\* _try_visual_fallback
TryVisualFallback(S, in, reason) ==
    IF ~in.shot
    THEN [st |-> S, result |-> NullResult, calls |-> 0, raised |-> FALSE]
    ELSE IF in.vo = "raises" /\ ~VisionCaught(in.vo)
    THEN [st |-> S, result |-> NullResult, calls |-> 1, raised |-> TRUE]
    ELSE IF in.vo = "element"
    THEN [st |-> RecordEvent(S, in.app, "visual", TRUE, VisionLatency, reason),
          result |-> ElementMetadata("visual", TRUE, reason,
                                     CapVisual(in.vconf), in.tag),
          calls |-> 1, raised |-> FALSE]
    ELSE [st |-> RecordEvent(S, in.app, "visual", FALSE, VisionLatency, reason),
          result |-> NullResult, calls |-> 1, raised |-> FALSE]

NoVision == [result |-> NullResult, calls |-> 0, raised |-> FALSE]

\* what one call of the manager did and returned
CallLog(in, S, mark, a, v, attempted) ==
    [st |-> S,
     log |-> [NoLast EXCEPT
              !.kind = "fm", !.app = in.app, !.thread = in.thread,
              !.shot = in.shot, !.mark = mark,
              !.count_before = IF in.app # NoApp
                               THEN app_timeout_counts[in.app] ELSE 0,
              !.backoff = a.backoff,
              !.denied = a.denied, !.attempted = attempted,
              !.adapter_invoked = a.invoked, !.outcome = a.outcome,
              !.vision_calls = v.calls,
              !.vision_outcome = IF v.calls = 0 THEN "skipped" ELSE in.vo,
              !.blocked_ms = a.blocked, !.timed_out = a.timed_out,
              !.raised = a.raised \/ v.raised,
              !.entries_added = Len(S.entries) - Len(entries),
              !.threads_started = a.threads, !.abandoned = a.abandoned,
              !.result = IF a.raised \/ v.raised THEN NullResult
                         ELSE IF a.result.present THEN a.result
                         ELSE v.result]]

\* the "cached as unsupported" branch of get_element_metadata_with_fallback
UnsupportedBranch(S, in) == TryVisualFallback(S, in, "unsupported")

ErrorBranch_NoReason(S, in) == TryVisualFallback(S, in, "none")

\* the branch taken when accessibility gave nothing and vision is allowed
ErrorBranch(S, in) == TryVisualFallback(S, in, "error")

\* "if screenshot_path and self._config.visual_fallback_enabled"
VisualAllowed(in) == in.shot /\ cfg.visual_fallback_enabled

\* FallbackManager.get_element_metadata_with_fallback
GetElementMetadataWithFallback(S, in) ==
    LET u == IF in.app # NoApp THEN IsAppCachedUnsupported(S, in.app)
             ELSE [hit |-> FALSE, mark |-> "none", st |-> S]
    IN  IF u.hit
        THEN LET S1 == [u.st EXCEPT !.hits = @ + 1]
                 v == UnsupportedBranch(S1, in)
             IN  CallLog(in, v.st, u.mark, NoAccess(S1, FALSE, FALSE), v, FALSE)
        ELSE LET S1 == [u.st EXCEPT !.misses = @ + 1]
                 a == TryAccessibilityApi(S1, in)
             IN  IF a.raised
                 THEN CallLog(in, a.st, u.mark, a, NoVision, TRUE)
                 ELSE IF a.result.present
                 THEN CallLog(in,
                              RecordEvent(a.st, in.app, "accessibility", TRUE,
                                          a.blocked, "none"),
                              u.mark, a, NoVision, TRUE)
                 ELSE IF VisualAllowed(in)
                 THEN LET v == ErrorBranch(a.st, in)
                      IN  CallLog(in, v.st, u.mark, a, v, TRUE)
                 ELSE CallLog(in, a.st, u.mark, a, NoVision, TRUE)

\* the inputs of one call: the arguments, and what the collaborators do
\* (ao, aconf, d: the backend's answer, confidence and duration; perm: the
\* macOS permission check; vo, vconf: the vision answer).  Inputs that
\* cannot matter are fixed.
CallInputs(apps, platforms, perms, shots, threads, aos, durations, vos, tag) ==
    { in \in [app : apps, platform : platforms, shot : shots,
              perm : perms, ao : aos, aconf : AdapterConfs,
              d : durations, vo : vos, vconf : VisionConfs,
              thread : threads, own_timer : {FALSE}, tag : {tag}] :
        /\ in.platform # "macos" => in.perm
        /\ in.ao # "element" => in.aconf = default_confidence
        /\ in.d > cfg.timeout_ms => in.ao = "none"
        /\ in.vo # "element" => in.vconf = default_visual_confidence
        /\ ~in.shot => in.vo = "none" }

\* the same inputs, and those where the macOS backend's own timer takes
\* the place of the manager's (a call in the main thread of a macOS host)
WithOwnTimer(I) ==
    I \cup { [in EXCEPT !.own_timer = TRUE] :
               in \in { i \in I : hostOS = "macos" /\ i.thread = "main" } }

Commit(S) ==
    /\ app_timeout_counts' = S.counts
    /\ app_support_cache' = S.support
    /\ cache_timestamps' = S.ts
    /\ entries' = S.entries
    /\ cache_hits' = S.hits
    /\ cache_misses' = S.misses
    /\ workers' = S.workers
    /\ containers' = S.containers

\* a caller asks the manager directly, with inputs drawn from I
FMRequestOver(I, limit) ==
    /\ nreq < limit
    /\ \E in \in I :
         \E r \in {GetElementMetadataWithFallback(ManagerState, in)} :
           /\ Commit(r.st)
           /\ last' = r.log
    /\ nreq' = nreq + 1
    /\ UNCHANGED <<cfg, hostOS, now, element_cache, element_stats>>
    /\ UNCHANGED componentVars

\* a thread abandoned by _windows_timeout finishes and writes its container
WorkerFinish ==
    \E id \in DOMAIN workers :
      /\ id[1] = "fm"
      /\ workers[id] = "orphan"
      /\ \E ao \in {"element", "none"} :
           containers' =
             [containers EXCEPT ![ContainerOf(id)] =
                [completed |-> TRUE, out |-> ao, conf |-> default_confidence,
                 tag |-> id[2]]]
      /\ workers' = [workers EXCEPT ![id] = "orphan_done"]
      /\ UNCHANGED <<cfg, hostOS, now, app_timeout_counts, app_support_cache,
                     cache_timestamps, entries, cache_hits, cache_misses,
                     element_cache, element_stats, nreq, last>>
      /\ UNCHANGED componentVars

\* time passes
Tick ==
    /\ now < MaxTime
    /\ now' = now + 1
    /\ UNCHANGED <<cfg, hostOS, app_timeout_counts, app_support_cache,
                   cache_timestamps, entries, cache_hits, cache_misses,
                   workers, containers, element_cache, element_stats, nreq,
                   last>>
    /\ UNCHANGED componentVars

\* ---------------------------------------------------------- ElementCache
\* x // 10 done by truncating toward zero
TruncDiv(x, d) == IF x >= 0 THEN x \div d ELSE -((-x) \div d)

make_cache_key_Truncated(platform, app, x, y) ==
    <<platform, IF app \in {NoApp, ""} THEN "unknown" ELSE app,
      TruncDiv(x, coord_bucket), TruncDiv(y, coord_bucket)>>

\* make_cache_key: // floors; `app_name or "unknown"` replaces None and ""
make_cache_key(platform, app, x, y) ==
    <<platform, IF app \in {NoApp, ""} THEN "unknown" ELSE app,
      x \div coord_bucket, y \div coord_bucket>>

\* position of key in the OrderedDict, 0 when absent
KeyIndex(cache, key) ==
    IF \E i \in 1..Len(cache) : cache[i].key = key
    THEN CHOOSE i \in 1..Len(cache) : cache[i].key = key
    ELSE 0

MoveToEnd_Stay(cache, i) == cache

\* OrderedDict.move_to_end
MoveToEnd(cache, i) ==
    Append(SubSeq(cache, 1, i - 1) \o SubSeq(cache, i + 1, Len(cache)),
           cache[i])

\* ElementCache.get
ElementCacheGet(E, key) ==
    LET i == KeyIndex(E.cache, key)
    IN  IF i > 0
        THEN [hit |-> TRUE, value |-> E.cache[i].value,
              st |-> [cache |-> MoveToEnd(E.cache, i),
                      stats |-> [E.stats EXCEPT !.hits = @ + 1]]]
        ELSE [hit |-> FALSE, value |-> NullResult,
              st |-> [E EXCEPT !.stats.misses = @ + 1]]

\* ElementCache.put
ElementCachePut(E, key, value) ==
    LET i == KeyIndex(E.cache, key)
    IN  IF i > 0
        THEN [E EXCEPT !.cache = MoveToEnd(E.cache, i)]
        ELSE LET added == Append(E.cache, [key |-> key, value |-> value])
             IN  [E EXCEPT !.cache = IF Len(added) > max_size
                                     THEN Tail(added) ELSE added]

\* --------------------------------------------------- annotation orchestrator
\* AnnotationConfig.element_query_timeout_ms: the same default as timeout_ms
element_query_timeout_ms == TimeoutTicks

CacheLookup_Skipped(E, enabled, key) ==
    [hit |-> FALSE, value |-> NullResult, st |-> E]

\* "if config.enable_cache: cached = _element_cache.get(cache_key)"
CacheLookup(E, enabled, key) ==
    IF enabled THEN ElementCacheGet(E, key)
    ELSE [hit |-> FALSE, value |-> NullResult, st |-> E]

\* _query_element_with_timeout: a daemon thread runs get_element_metadata
\* (the manager, with no app name and no screenshot), the caller joins it
\* for element_query_timeout_ms.  When the thread needs exactly the
\* timeout, either side of the race can win (late).  r is what the
\* thread's call of the manager does and returns.
QueryElementWithTimeout(S, tag, late, r) ==
    LET id == <<"orch", tag>>
        c == ContainerOf(id)
        C0 == IF c \in DOMAIN S.containers THEN S.containers
              ELSE S.containers @@ (c :> FreshContainer)
    IN  IF late
        THEN [possible |-> r.log.blocked_ms >= element_query_timeout_ms,
              st |-> [S EXCEPT !.containers = C0,
                               !.workers = @ @@ (id :> "orphan")],
              result |-> NullResult, invoked |-> FALSE, abandoned |-> TRUE,
              blocked |-> element_query_timeout_ms, threads |-> 1]
        ELSE [possible |-> r.log.blocked_ms <= element_query_timeout_ms,
              st |-> r.st,
              result |-> IF r.log.raised THEN NullResult ELSE r.log.result,
              invoked |-> r.log.adapter_invoked, abandoned |-> FALSE,
              blocked |-> JoinWait(r.log.blocked_ms, element_query_timeout_ms),
              threads |-> 1 + r.log.threads_started]

\* what annotate_screenshot draws when _fallback_to_visual answers rvo
FallbackShown(rvo) ==
    [shown |-> IF rvo = "element" THEN "visual_fallback"
               ELSE "click_indicator",
     calls |-> 1, outcome |-> rvo]

Shown_Trusting(element, rvo) ==
    IF element.present
    THEN [shown |-> element.source, calls |-> 0, outcome |-> "skipped"]
    ELSE FallbackShown(rvo)

\* _fallback_to_visual and the click indicator of annotate_screenshot
Shown(element, rvo) ==
    IF element.present /\ element.confidence >= confidence_threshold
    THEN [shown |-> element.source, calls |-> 0, outcome |-> "skipped"]
    ELSE FallbackShown(rvo)

\* the manager call a worker thread of the orchestrator makes:
\* get_element_metadata passes get_os(), no screenshot and no app name
WorkerCallInputs(durations, tag) ==
    CallInputs({NoApp}, {hostOS}, BOOLEAN, {FALSE}, {"worker"},
               {"element", "none", "error"}, durations, {"none"}, tag)

AnnotateLog(app, key, enabled, hit, q, element, sh) ==
    [NoLast EXCEPT
       !.kind = "annotate", !.app = app, !.key = key,
       !.looked_up = enabled, !.cache_hit = hit,
       !.attempted = ~hit, !.adapter_invoked = q.invoked,
       !.abandoned = q.abandoned, !.timed_out = q.abandoned,
       !.blocked_ms = q.blocked, !.threads_started = q.threads,
       !.entries_added = Len(q.st.entries) - Len(entries),
       !.result = element, !.shown = sh.shown,
       !.render_vision_calls = sh.calls,
       !.render_vision_outcome = sh.outcome]

\* annotate_screenshot, through _get_element_with_cache
AnnotateOver(apps, enableds, rvos, limit) ==
    /\ nreq < limit
    /\ \E x \in Xs, y \in Ys, app \in apps, enabled \in enableds,
          rvo \in rvos :
         LET key == make_cache_key(hostOS, app, x, y)
             E0 == [cache |-> element_cache, stats |-> element_stats]
             g == CacheLookup(E0, enabled, key)
         IN  IF g.hit
             THEN LET sh == Shown(g.value, rvo)
                       q == [st |-> ManagerState, invoked |-> FALSE,
                             abandoned |-> FALSE, blocked |-> 0, threads |-> 0]
                  IN  /\ sh.calls = 0 => rvo = "none"
                      /\ element_cache' = g.st.cache
                      /\ element_stats' = g.st.stats
                      /\ last' = AnnotateLog(app, key, enabled, TRUE, q,
                                             g.value, sh)
                      /\ UNCHANGED <<app_timeout_counts, app_support_cache,
                                     cache_timestamps, entries, cache_hits,
                                     cache_misses, workers, containers>>
             ELSE \E in \in WorkerCallInputs(AdapterDurations, nreq + 1),
                     late \in BOOLEAN :
                  \E r \in {GetElementMetadataWithFallback(ManagerState, in)} :
                  \E q \in {QueryElementWithTimeout(ManagerState, in.tag,
                                                     late, r)} :
                    LET E1 == IF q.result.present /\ enabled
                              THEN ElementCachePut(g.st, key, q.result)
                              ELSE g.st
                        sh == Shown(q.result, rvo)
                    IN  /\ q.possible
                        /\ sh.calls = 0 => rvo = "none"
                        /\ Commit(q.st)
                        /\ element_cache' = E1.cache
                        /\ element_stats' = E1.stats
                        /\ last' = AnnotateLog(app, key, enabled, FALSE, q,
                                               q.result, sh)
    /\ nreq' = nreq + 1
    /\ UNCHANGED <<cfg, hostOS, now>>
    /\ UNCHANGED componentVars

\* a thread abandoned by _query_element_with_timeout finishes its call of
\* the manager and writes its result list
OrchWorkerFinish ==
    \E id \in DOMAIN workers :
      /\ id[1] = "orch"
      /\ workers[id] = "orphan"
      /\ \E in \in WorkerCallInputs(AdapterDurations, id[2]) :
         \E r \in {GetElementMetadataWithFallback(ManagerState, in)} :
           LET c == ContainerOf(id)
               S1 == [r.st EXCEPT
                        !.workers = [k \in DOMAIN @ |->
                                       IF k = id THEN "orphan_done" ELSE @[k]],
                        !.containers = [k \in DOMAIN @ |->
                            IF k = c
                            THEN [completed |-> TRUE,
                                  out |-> IF r.log.result.present
                                          THEN "element" ELSE "none",
                                  conf |-> r.log.result.confidence,
                                  tag |-> id[2]]
                            ELSE @[k]]]
           IN  /\ r.log.blocked_ms >= element_query_timeout_ms
               /\ Commit(S1)
      /\ UNCHANGED <<cfg, hostOS, now, element_cache, element_stats, nreq,
                     last>>
      /\ UNCHANGED componentVars

\* the state after construction, for the configurations in C and hosts in H
InitManager(C, H) ==
    /\ cfg \in C
    /\ hostOS \in H
    /\ app_timeout_counts = [a \in Apps |-> 0]
    /\ app_support_cache = {}
    /\ cache_timestamps = [a \in Apps |-> 0]
    /\ entries = <<>>
    /\ cache_hits = 0
    /\ cache_misses = 0
    /\ workers = <<>>
    /\ containers = <<>>
    /\ element_cache = <<>>
    /\ element_stats = [hits |-> 0, misses |-> 0]
    /\ nreq = 0
    /\ last = NoLast
    /\ session = NewSession

\* no call made on a component yet
NoOp == [name |-> "none"]

\* VisionCache(ttl_seconds, max_entries) after construction
NewVisionCache(ttl, cap) ==
    [cache |-> <<>>, ttl |-> ttl, max_entries |-> cap, hits |-> 0, misses |-> 0]

\* StepDetector(DetectorConfig(debounce_seconds, mode)) after construction
NewDetector(debounce, mode) ==
    [debounce_seconds |-> debounce, mode |-> mode, before |-> 0,
     steps |-> <<>>, last_step_time |-> 0]

InitOver(C, H) ==
    /\ InitManager(C, H)
    /\ now = 0
    /\ vision = NewVisionCache(1, 1)
    /\ detector = NewDetector(1, "desktop")
    /\ op = NoOp

\* ------------------------------------------------ timeouts and backoff
\* Callers on the main thread; the backend answers, finds nothing or is slow.
InitBackoff ==
    InitOver({ FallbackConfig(r, TtlBound, v) :
                 r \in 1..MaxRetriesBound, v \in BOOLEAN }, Hosts)

BackoffRequest ==
    FMRequestOver(CallInputs(Apps, {"windows"}, {TRUE}, BOOLEAN, {"main"},
                             {"element", "none"},
                             {1, cfg.timeout_ms + 1}, {"none", "element"},
                             nreq + 1),
                  MaxRequests)

NextBackoff == BackoffRequest

SpecBackoff == InitBackoff /\ [][NextBackoff]_vars

\* C1: once an app's consecutive-timeout counter has reached max_retries it
\* stays there, and every later request for that app leaves the
\* accessibility adapter alone and goes on to the vision path (which calls
\* the vision identifier when there is a screenshot and vision is enabled).
BackoffSkipsAccessibility ==
    [][\A a \in Apps :
         app_timeout_counts[a] >= cfg.max_retries =>
           /\ app_timeout_counts'[a] >= cfg.max_retries
           /\ (nreq' # nreq /\ last'.app = a) =>
                /\ ~last'.adapter_invoked
                /\ last'.threads_started = 0
                /\ last'.blocked_ms = 0
                /\ last'.vision_calls =
                     (IF last'.shot /\ cfg.visual_fallback_enabled
                      THEN 1 ELSE 0)]_vars

BackoffWitness ==
    /\ last.kind = "fm"
    /\ last.app = "SlowApp"
    /\ last.backoff
    /\ last.count_before = 2
    /\ ~last.adapter_invoked
    /\ last.vision_calls = 1
    /\ last.result.source = "visual"
    /\ app_timeout_counts["SlowApp"] = cfg.max_retries
    /\ cfg.max_retries = 2

\* C3: an accessibility query for an app that ends in an element, with no
\* exception, leaves the app's consecutive-timeout counter at zero; the
\* counter moves in no other way than up by one on a timeout of a request
\* for that app, so it counts the timeouts since the last success.
SuccessResetsTimeoutCount ==
    [][\A a \in Apps :
         /\ (nreq' # nreq /\ last'.app = a /\ last'.adapter_invoked
               /\ last'.result.source = "accessibility") =>
              app_timeout_counts'[a] = 0
         /\ app_timeout_counts'[a] # app_timeout_counts[a] =>
              /\ nreq' # nreq /\ last'.app = a /\ last'.adapter_invoked
              /\ \/ last'.timed_out
                      /\ app_timeout_counts'[a] = app_timeout_counts[a] + 1
                 \/ last'.result.source = "accessibility"
                      /\ app_timeout_counts'[a] = 0]_vars

SuccessResetWitness ==
    /\ last.kind = "fm"
    /\ last.app = "SlowApp"
    /\ last.count_before = 1
    /\ last.adapter_invoked
    /\ last.result.source = "accessibility"
    /\ app_timeout_counts["SlowApp"] = 0

\* ------------------------------------------------ the unsupported mark
\* Callers on any thread; the backend reports "not found" or finds nothing;
\* seconds pass between requests.
InitTtl ==
    InitOver({ FallbackConfig(MaxRetriesBound, t, TRUE) : t \in 1..TtlBound },
             Hosts)

TtlRequest ==
    FMRequestOver(CallInputs(AppArgs, Platforms, BOOLEAN, {TRUE}, Threads,
                             {"notfound", "none"}, {1}, {"element"},
                             nreq + 1),
                  MaxRequests)

NextTtl == TtlRequest \/ Tick

SpecTtl == InitTtl /\ [][NextTtl]_vars

\* C2: a "not found" error of the accessibility query of a request for an
\* app marks the app unsupported with the current time.  A later request
\* for a marked app whose mark is at most cache_ttl_seconds old skips the
\* accessibility attempt and leaves the mark alone; one whose mark is older
\* drops the mark and makes the accessibility attempt again, which queries
\* the adapter whenever the permission check and the timeout wrapper let
\* the query start.
UnsupportedMarkIsTtlGated ==
    [][\A a \in Apps :
         /\ (nreq' # nreq /\ last'.app = a /\ last'.outcome = "notfound") =>
              a \in app_support_cache' /\ cache_timestamps'[a] = now
         /\ (nreq' # nreq /\ last'.app = a /\ a \in app_support_cache) =>
              IF now - cache_timestamps[a] <= cfg.cache_ttl_seconds
              THEN /\ ~last'.attempted
                   /\ ~last'.adapter_invoked
                   /\ a \in app_support_cache'
                   /\ cache_timestamps'[a] = cache_timestamps[a]
              ELSE /\ last'.attempted
                   /\ (~last'.denied
                         /\ (hostOS = "windows" \/ last'.thread = "main")) =>
                        last'.adapter_invoked
                   /\ a \in app_support_cache' =>
                        last'.outcome = "notfound"
                          /\ cache_timestamps'[a] = now]_vars

ExpiredMarkWitness ==
    /\ last.kind = "fm"
    /\ last.app = "SlowApp"
    /\ last.mark = "expired"
    /\ last.adapter_invoked
    /\ last.outcome = "none"
    /\ "SlowApp" \notin app_support_cache
    /\ "OtherApp" \in app_support_cache

\* ------------------------------------------------ every path of a request
\* Callers on any thread, with and without a screenshot; the backend and
\* the vision service answer, find nothing or fail in every way they can.
InitPaths ==
    InitOver({ FallbackConfig(MaxRetriesBound, TtlBound, v) : v \in BOOLEAN },
             Hosts)

PathsRequest ==
    FMRequestOver(CallInputs({"SlowApp", NoApp}, Platforms, BOOLEAN, BOOLEAN,
                             Threads, AccessOutcomes,
                             {1, cfg.timeout_ms + 1}, VisionOutcomes,
                             nreq + 1),
                  MaxPathRequests)

NextPaths == PathsRequest

SpecPaths == InitPaths /\ [][NextPaths]_vars

\* C4: the vision identifier is called for a request only if
\* visual_fallback_enabled is true and a screenshot is available, on every
\* path of the manager.
VisionOnlyWhenEnabled ==
    (last.kind = "fm" /\ last.vision_calls > 0) =>
        cfg.visual_fallback_enabled /\ last.shot

\* C5: no request raises to its caller.  A timeout, a permission denial and
\* any exception of the accessibility query end the accessibility attempt
\* and lead to the vision attempt (made when a screenshot is there and
\* vision is enabled), an exception of the vision identifier ends that
\* attempt, and a request neither source answered returns null.
NoErrorReachesCaller ==
    last.kind = "fm" =>
      /\ ~last.raised
      /\ (last.denied
            \/ last.outcome \in {"timeout", "permission", "notfound", "error"}) =>
           /\ last.result.source # "accessibility"
           /\ last.vision_calls =
                (IF last.shot /\ cfg.visual_fallback_enabled THEN 1 ELSE 0)
      /\ (last.outcome # "element" /\ last.vision_outcome # "element") =>
           ~last.result.present

BothSourcesFailWitness ==
    /\ last.kind = "fm"
    /\ last.adapter_invoked
    /\ last.outcome = "error"
    /\ last.vision_outcome = "raises"
    /\ ~last.raised
    /\ ~last.result.present

\* C6: every request appends exactly one MetricEntry, and the entry of a
\* request that returned an element names the source of that element.
EveryRequestRecordsOneEntry ==
    last.kind = "fm" =>
      /\ last.entries_added = 1
      /\ last.result.present =>
           /\ entries[Len(entries)].source = last.result.source
           /\ entries[Len(entries)].success

\* ------------------------------------------------ workers and deadlines
\* Direct requests and annotations; backends that answer in time, exactly
\* at the deadline or after it; abandoned threads that finish later.
InitWorkers ==
    InitOver({ FallbackConfig(MaxRetriesBound, TtlBound, TRUE) }, Hosts)

WorkersRequest ==
    FMRequestOver(
        WithOwnTimer(CallInputs({NoApp}, {"windows"}, {TRUE}, BOOLEAN,
                                {"main"}, {"element", "none"},
                                {1, cfg.timeout_ms + 1}, {"none", "element"},
                                nreq + 1)),
        MaxWorkerRequests)

WorkersAnnotate ==
    AnnotateOver({"SlowApp"}, BOOLEAN, {"none"}, MaxWorkerRequests)

NextWorkers ==
    WorkersRequest \/ WorkersAnnotate \/ WorkerFinish \/ OrchWorkerFinish

SpecWorkers == InitWorkers /\ [][NextWorkers]_vars

\* C7: a request never keeps its caller longer than timeout_ms for the
\* accessibility query, makes at most one vision call, and a request whose
\* timer expired does not answer with the accessibility result.
NeverBlocksBeyondTimeout ==
    last.kind # "none" =>
      /\ last.blocked_ms <= cfg.timeout_ms
      /\ last.vision_calls + last.render_vision_calls <= 1
      /\ last.timed_out =>
           ~(last.result.present /\ last.result.source = "accessibility")

\* C8: a worker abandoned on timeout is never removed before it completes,
\* and what it produces is never the answer of the request that abandoned
\* it, never the answer of a later request, and never enters ElementCache.
AbandonedResultDiscarded ==
    [][ /\ \A id \in DOMAIN workers :
             /\ id \in DOMAIN workers'
             /\ workers'[id] \in {workers[id], "orphan_done"}
        /\ \A id \in DOMAIN workers' :
             /\ ~ /\ last'.result.present
                  /\ last'.result.source = "accessibility"
                  /\ last'.result.tag = id[2]
             /\ \A i \in 1..Len(element_cache') :
                  element_cache'[i].value.tag # id[2] ]_vars

\* an abandoned worker has completed with an element, and a later request
\* has been answered by its own accessibility query
LateResultWitness ==
    \E id \in DOMAIN workers :
      /\ workers[id] = "orphan_done"
      /\ containers[ContainerOf(id)].completed
      /\ containers[ContainerOf(id)].out = "element"
      /\ id[2] < nreq
      /\ last.result.present
      /\ last.result.source = "accessibility"
      /\ last.result.tag = nreq

\* C9: the abandoned workers still running never outnumber a cap smaller
\* than the number of requests made; not every request leaves one behind.
AbandonedWorkersBounded ==
    Cardinality({id \in DOMAIN workers : workers[id] = "orphan"})
      <= MaxWorkerRequests - 1

ResultCarriesProvenance ==
    last.kind = "fm" /\ last.result.present =>
      \/ /\ last.adapter_invoked
         /\ last.outcome = "element"
         /\ last.vision_calls = 0
         /\ last.result.source = "accessibility"
         /\ ~last.result.fallback_used
         /\ last.result.fallback_reason = "none"
      \/ /\ last.outcome # "element"
         /\ last.vision_calls = 1
         /\ last.vision_outcome = "element"
         /\ last.result.source = "visual"
         /\ last.result.fallback_used
         /\ last.result.fallback_reason \in
              {"timeout", "permission_denied", "error", "unsupported"}

\* a vision result returned after the accessibility query timed out
VisualProvenanceWitness ==
    /\ last.kind = "fm"
    /\ last.timed_out
    /\ last.result.present
    /\ last.result.source = "visual"
    /\ last.result.fallback_used
    /\ last.result.fallback_reason = "error"

InitCache == InitOver({FallbackConfig(MaxRetriesBound, TtlBound, TRUE)}, Hosts)

CacheAnnotate ==
    AnnotateOver({"SlowApp"}, BOOLEAN, {"none", "element"}, MaxWorkerRequests)

NextCache == CacheAnnotate \/ OrchWorkerFinish \/ WorkerFinish

SpecCache == InitCache /\ [][NextCache]_vars

\* C11: with caching enabled, a request that identified an element, through
\* accessibility or through vision, leaves ElementCache holding that element
\* under the request's bucketed key: fallback_used false for accessibility,
\* fallback_used true and a fallback_reason for vision.
SuccessPopulatesCache ==
    /\ last.kind = "annotate"
    /\ last.looked_up
    /\ last.shown \in {"accessibility", "visual_fallback"}
    => /\ KeyIndex(element_cache, last.key) # 0
       /\ LET v == element_cache[KeyIndex(element_cache, last.key)].value
          IN  IF last.shown = "accessibility"
              THEN v.source = "accessibility" /\ ~v.fallback_used
              ELSE /\ v.source = "visual"
                   /\ v.fallback_used
                   /\ v.fallback_reason \in
                        {"timeout", "permission_denied", "error", "unsupported"}

LruKeys ==
    { make_cache_key("windows", "SlowApp", coord_bucket * b, 200) :
        b \in 1..(max_size + 2) }
LruValues ==
    { ElementMetadata("accessibility", FALSE, "none", c, 0) : c \in AdapterConfs }

\* the keys the OrderedDict holds
CachedKeys(cache) == { cache[i].key : i \in 1..Len(cache) }

\* the value stored under a key that is present
CachedValue(cache, key) == cache[KeyIndex(cache, key)].value

\* op.stamp is when each key was last accessed (a get that hit, or a put),
\* counted in calls; it is kept beside the cache, not by it
InitLru ==
    /\ InitManager({FallbackConfig(MaxRetriesBound, TtlBound, TRUE)}, {"windows"})
    /\ now = 0
    /\ vision = NewVisionCache(1, 1)
    /\ detector = NewDetector(1, "desktop")
    /\ op = [name |-> "none", key |-> <<>>, hit |-> FALSE,
             value |-> NullResult, stamp |-> [k \in LruKeys |-> 0]]

\* _element_cache.get(key)
CacheGet ==
    /\ nreq < MaxCacheOps
    /\ \E key \in LruKeys :
       \E g \in {ElementCacheGet([cache |-> element_cache,
                                  stats |-> element_stats], key)} :
         /\ element_cache' = g.st.cache
         /\ element_stats' = g.st.stats
         /\ op' = [name |-> "get", key |-> key, hit |-> g.hit,
                   value |-> g.value,
                   stamp |-> IF g.hit
                             THEN [op.stamp EXCEPT ![key] = nreq + 1]
                             ELSE op.stamp]
    /\ nreq' = nreq + 1
    /\ UNCHANGED <<cfg, hostOS, now, app_timeout_counts, app_support_cache,
                   cache_timestamps, entries, cache_hits, cache_misses,
                   workers, containers, last, vision, detector,
                   session>>

\* _element_cache.put(key, value)
CachePut ==
    /\ nreq < MaxCacheOps
    /\ \E key \in LruKeys, value \in LruValues :
       \E E \in {ElementCachePut([cache |-> element_cache,
                                  stats |-> element_stats], key, value)} :
         /\ element_cache' = E.cache
         /\ element_stats' = E.stats
         /\ op' = [name |-> "put", key |-> key, hit |-> FALSE,
                   value |-> value,
                   stamp |-> [op.stamp EXCEPT ![key] = nreq + 1]]
    /\ nreq' = nreq + 1
    /\ UNCHANGED <<cfg, hostOS, now, app_timeout_counts, app_support_cache,
                   cache_timestamps, entries, cache_hits, cache_misses,
                   workers, containers, last, vision, detector,
                   session>>

NextLru == CacheGet \/ CachePut

SpecLru == InitLru /\ [][NextLru]_vars

\* C14: the cache never holds more than max_size entries; a get removes
\* nothing; a put of an existing key removes nothing; a put of a new key
\* removes an entry only when the cache is full, and then exactly the entry
\* accessed longest ago (a get that hit counts as an access); every other
\* entry stays retrievable with its value.
LruEvictsLeastRecent ==
    [][ LET old == CachedKeys(element_cache)
            new == CachedKeys(element_cache')
            k == op'.key
        IN  /\ Len(element_cache') <= max_size
            /\ Cardinality(new) = Len(element_cache')
            /\ \A j \in old \cap new :
                 CachedValue(element_cache', j) = CachedValue(element_cache, j)
            /\ op'.name = "get" => new = old
            /\ op'.name = "put" /\ k \in old => new = old
            /\ op'.name = "put" /\ k \notin old /\ Len(element_cache) < max_size
                 => new = old \cup {k}
            /\ op'.name = "put" /\ k \notin old /\ Len(element_cache) >= max_size
                 => \E e \in old :
                      /\ new = (old \ {e}) \cup {k}
                      /\ \A j \in old : op.stamp[e] <= op.stamp[j] ]_vars

\* a full cache has evicted on a put, and the entry that went was not the
\* first one inserted, because a get had promoted that one
LruWitness ==
    /\ op.name = "put"
    /\ Len(element_cache) = max_size
    /\ element_stats.hits > 0
    /\ \E e \in LruKeys \ CachedKeys(element_cache) : op.stamp[e] = 2
    /\ \E j \in CachedKeys(element_cache) \ {op.key} :
         op.stamp[j] > 2 /\ op.stamp[j] < op.stamp[op.key]

\* ----------------------------------------------------------- VisionCache
\* screenshots, told apart by their bytes, and the element lists stored
VisionImages == 1..(VisionCapBound + 1)
VisionElements == {"one_button", "two_fields"}

\* VisionCache._hash: the SHA-256 digest stands for the bytes it was made of
VisionHash(image) == <<"sha256", image>>

\* position of a key in the dict, 0 when absent
VisionIndex(cache, key) ==
    IF \E i \in 1..Len(cache) : cache[i].image_hash = key
    THEN CHOOSE i \in 1..Len(cache) : cache[i].image_hash = key
    ELSE 0

\* del self._cache[key]
VisionRemove(cache, i) ==
    SubSeq(cache, 1, i - 1) \o SubSeq(cache, i + 1, Len(cache))

\* "time.time() - entry.timestamp > self._ttl"
VisionExpired(V, entry, t) == t - entry.timestamp > V.ttl

AfterVisionHit_Refreshed(V, i, t) ==
    [V EXCEPT !.hits = @ + 1, !.cache[i].timestamp = t]

\* a hit counts and leaves the entry as it is
AfterVisionHit(V, i, t) == [V EXCEPT !.hits = @ + 1]

\* VisionCache.get at time t
VisionGet(V, image, t) ==
    LET key == VisionHash(image)
        i == VisionIndex(V.cache, key)
    IN  IF i = 0
        THEN [st |-> [V EXCEPT !.misses = @ + 1], ret |-> "none"]
        ELSE IF VisionExpired(V, V.cache[i], t)
        THEN [st |-> [V EXCEPT !.cache = VisionRemove(@, i),
                               !.misses = @ + 1],
              ret |-> "none"]
        ELSE [st |-> AfterVisionHit(V, i, t), ret |-> V.cache[i].elements]

EvictOldest_Newest(cache) ==
    IF cache = <<>> THEN cache
    ELSE VisionRemove(cache,
           CHOOSE i \in 1..Len(cache) :
             \A j \in 1..Len(cache) : cache[i].timestamp >= cache[j].timestamp)

\* _evict_oldest: min() over the keys by timestamp, the first of equals
EvictOldest(cache) ==
    IF cache = <<>> THEN cache
    ELSE VisionRemove(cache,
           CHOOSE i \in 1..Len(cache) :
             /\ \A j \in 1..Len(cache) : cache[i].timestamp <= cache[j].timestamp
             /\ \A j \in 1..(i - 1) : cache[j].timestamp > cache[i].timestamp)

\* VisionCache.put at time t
VisionPut(V, image, elements, t) ==
    LET key == VisionHash(image)
        c0 == IF Len(V.cache) >= V.max_entries THEN EvictOldest(V.cache)
              ELSE V.cache
        i == VisionIndex(c0, key)
        entry == [elements |-> elements, timestamp |-> t, image_hash |-> key]
    IN  [V EXCEPT !.cache = IF i > 0 THEN [c0 EXCEPT ![i] = entry]
                            ELSE Append(c0, entry)]

\* the hashes the dict holds
VisionKeys(cache) == { cache[i].image_hash : i \in 1..Len(cache) }

\* op.put_time and op.put_elements are when and with what each image in
\* the cache was last put, op.read the images read with a hit since; they
\* are kept beside the cache, not by it, and forgotten with the entry
InitVision ==
    /\ InitManager({FallbackConfig(MaxRetriesBound, TtlBound, TRUE)}, {"windows"})
    /\ now = 0
    /\ vision = NewVisionCache(TtlBound, VisionCapBound)
    /\ detector = NewDetector(1, "desktop")
    /\ op = [name |-> "none", image |-> 0, ret |-> "none", evicted |-> {},
             evicted_read |-> FALSE, evicted_put |-> 0,
             put_time |-> [k \in VisionImages |-> 0],
             put_elements |-> [k \in VisionImages |-> "none"],
             read |-> {}]

\* the record of one call on the cache, given the cache it left (V)
VisionLog(name, image, ret, V, times, elements, reads) ==
    LET kept(k) == VisionHash(k) \in VisionKeys(V.cache)
        gone == VisionKeys(vision.cache) \ VisionKeys(V.cache)
    IN  [name |-> name, image |-> image, ret |-> ret, evicted |-> gone,
         evicted_read |-> \E e \in op.read : VisionHash(e) \in gone,
         evicted_put |-> IF \E e \in VisionImages : VisionHash(e) \in gone
                         THEN op.put_time[CHOOSE e \in VisionImages :
                                            VisionHash(e) \in gone]
                         ELSE 0,
         put_time |-> [k \in VisionImages |-> IF kept(k) THEN times[k] ELSE 0],
         put_elements |-> [k \in VisionImages |->
                             IF kept(k) THEN elements[k] ELSE "none"],
         read |-> { k \in reads : kept(k) }]

VisionCacheGet ==
    /\ nreq < MaxCacheOps
    /\ \E image \in VisionImages :
       \E g \in {VisionGet(vision, image, now)} :
         /\ vision' = g.st
         /\ op' = VisionLog("get", image, g.ret, g.st, op.put_time,
                            op.put_elements, op.read \cup {image})
    /\ nreq' = nreq + 1
    /\ UNCHANGED <<managerVars, session, now, element_cache, element_stats,
                   detector>>

VisionCachePut ==
    /\ nreq < MaxCacheOps
    /\ \E image \in VisionImages, elements \in VisionElements :
       \E V \in {VisionPut(vision, image, elements, now)} :
         /\ vision' = V
         /\ op' = VisionLog("put", image, "none", V,
                            [op.put_time EXCEPT ![image] = now],
                            [op.put_elements EXCEPT ![image] = elements],
                            op.read \ {image})
    /\ nreq' = nreq + 1
    /\ UNCHANGED <<managerVars, session, now, element_cache, element_stats,
                   detector>>

NextVision == VisionCacheGet \/ VisionCachePut \/ Tick

SpecVision == InitVision /\ [][NextVision]_vars

\* C15: a get of an entry put more than ttl ago answers None, removes the
\* entry and counts a miss; a get of an entry put at most ttl ago answers
\* the elements it was put with, counts a hit and leaves the cache as it
\* was, however often the entry was read before.
VisionEntryExpiresByTtl ==
    [][ /\ op'.name = "get"
        /\ nreq' = nreq + 1
        /\ VisionHash(op'.image) \in VisionKeys(vision.cache)
        => IF now - op.put_time[op'.image] > vision.ttl
           THEN /\ op'.ret = "none"
                /\ VisionKeys(vision'.cache) =
                     VisionKeys(vision.cache) \ {VisionHash(op'.image)}
                /\ vision'.misses = vision.misses + 1
                /\ vision'.hits = vision.hits
           ELSE /\ op'.ret = op.put_elements[op'.image]
                /\ vision'.cache = vision.cache
                /\ vision'.hits = vision.hits + 1
                /\ vision'.misses = vision.misses ]_vars

\* an entry read with a hit inside its TTL has been read again after the
\* TTL and was gone
VisionExpiryWitness ==
    /\ op.name = "get"
    /\ op.ret = "none"
    /\ op.evicted = {VisionHash(op.image)}
    /\ op.evicted_read
    /\ vision.hits > 0

\* C16: the cache never holds more than max_entries entries, and a put of
\* a new key into a full cache removes one entry, whose put is the oldest
\* of all, whichever entries were read and when.
VisionEvictsOldest ==
    [][ /\ Len(vision'.cache) <= vision.max_entries
        /\ Cardinality(VisionKeys(vision'.cache)) = Len(vision'.cache)
        /\ /\ op'.name = "put"
           /\ nreq' = nreq + 1
           /\ VisionHash(op'.image) \notin VisionKeys(vision.cache)
           /\ Len(vision.cache) >= vision.max_entries
           => \E e \in VisionImages :
                /\ VisionHash(e) \in VisionKeys(vision.cache)
                /\ op'.evicted = {VisionHash(e)}
                /\ VisionKeys(vision'.cache) =
                     (VisionKeys(vision.cache) \ {VisionHash(e)})
                       \cup {VisionHash(op'.image)}
                /\ \A j \in VisionImages :
                     VisionHash(j) \in VisionKeys(vision.cache)
                       => op.put_time[e] <= op.put_time[j] ]_vars

\* the entry evicted was the one read last, and an older-read, younger-put
\* entry stayed
VisionEvictionWitness ==
    /\ op.name = "put"
    /\ \E e \in VisionImages :
         /\ op.evicted = {VisionHash(e)}
         /\ op.evicted_read
         /\ \E j \in VisionImages \ {e, op.image} :
              /\ VisionHash(j) \in VisionKeys(vision.cache)
              /\ j \notin op.read
              /\ op.put_time[j] > op.evicted_put

\* ---------------------------------------------------------- StepDetector
\* step_detector.py.  Screenshots are the screen contents they show, 0 is
\* None; similarity scores are hundredths; time.time() is `now`, which has
\* long passed the debounce window when the detector is constructed.
\* Descriptions are "" (the default) or a text.
\* Screen capture succeeds and output_dir is None.
Screens == {1, 2}
ChangedScores == {50, desktop_threshold, 89, ssim_threshold}

\* StepDetector._compare: identical bytes score 1.0
Compare(before, after) ==
    IF before = after THEN {100} ELSE ChangedScores

\* DetectorConfig.effective_threshold
effective_threshold(D) ==
    IF D.mode = "desktop" THEN desktop_threshold ELSE ssim_threshold

Debounced_Never(D, t) == FALSE

\* capture_after: now - self._last_step_time < debounce_seconds
Debounced(D, t) == t - D.last_step_time < D.debounce_seconds

IsStep_Inclusive(score, threshold) == score <= threshold

\* capture_after: is_step = ssim_score < threshold
IsStep(score, threshold) == score < threshold

NextStepNumber_FromZero(D) == Len(D.steps)

\* step_number = self.step_count + 1
NextStepNumber(D) == Len(D.steps) + 1

StepRecord(D, before, after, score, t, description, method) ==
    [step_number |-> NextStepNumber(D), before_capture |-> before,
     after_capture |-> after, ssim_score |-> score, timestamp |-> t,
     description |-> description, detection_method |-> method]

\* append the step, note its time, the 'after' becomes the next 'before'
Recorded(D, step, t) ==
    [D EXCEPT !.steps = Append(@, step), !.last_step_time = t,
              !.before = step.after_capture]

\* StepDetector.capture_before with the screen showing `shot`
capture_before(D, shot) == [D EXCEPT !.before = shot]

\* StepDetector.capture_after with the screen showing `shot` and the
\* comparison answering `score`; ret is whether a StepRecord is returned
capture_after(D, shot, score, t, description) ==
    IF D.before = 0
    THEN [st |-> [D EXCEPT !.before = shot], ret |-> FALSE]
    ELSE IF Debounced(D, t)
    THEN [st |-> D, ret |-> FALSE]
    ELSE IF IsStep(score, effective_threshold(D))
    THEN [st |-> Recorded(D, StepRecord(D, D.before, shot, score, t,
                                        description, "ssim"), t),
          ret |-> TRUE]
    ELSE [st |-> D, ret |-> FALSE]

\* StepDetector.record_manual_step: `first` is the screenshot taken when
\* there is no 'before' yet
record_manual_step(D, first, shot, score, t, description) ==
    LET before == IF D.before = 0 THEN first ELSE D.before
    IN  Recorded(D, StepRecord(D, before, shot, score, t, description,
                               "manual"), t)

\* StepDetector.reset
reset(D) == [D EXCEPT !.steps = <<>>, !.before = 0, !.last_step_time = 0]

\* op is the last call on the detector and the one before it
DetectorLog(name, shot, score, ret) ==
    [name |-> name, time |-> now, after |-> shot, score |-> score,
     recorded |-> ret, prev_name |-> op.name, prev_time |-> op.time,
     prev_recorded |-> op.recorded]

InitDetector ==
    /\ InitManager({FallbackConfig(MaxRetriesBound, TtlBound, TRUE)}, {"windows"})
    /\ now = DebounceBound
    /\ vision = NewVisionCache(1, 1)
    /\ detector \in { NewDetector(DebounceBound, m) : m \in {"desktop", "web"} }
    /\ op = [name |-> "none", time |-> 0, after |-> 0, score |-> 0,
             recorded |-> FALSE, prev_name |-> "none", prev_time |-> 0,
             prev_recorded |-> FALSE]

DetectorUnchanged ==
    UNCHANGED <<managerVars, session, now, element_cache, element_stats, vision>>

CaptureBefore ==
    /\ nreq < MaxDetectorOps
    /\ \E shot \in Screens :
         /\ detector' = capture_before(detector, shot)
         /\ op' = DetectorLog("capture_before", shot, 0, FALSE)
    /\ nreq' = nreq + 1
    /\ DetectorUnchanged

CaptureAfter ==
    /\ nreq < MaxDetectorOps
    /\ \E shot \in Screens :
       \E score \in (IF detector.before = 0 \/ Debounced(detector, now)
                     THEN {0} ELSE Compare(detector.before, shot)) :
       \E r \in {capture_after(detector, shot, score, now, "")} :
         /\ detector' = r.st
         /\ op' = DetectorLog("capture_after", shot, score, r.ret)
    /\ nreq' = nreq + 1
    /\ DetectorUnchanged

RecordManualStep ==
    /\ nreq < MaxDetectorOps
    /\ \E first \in (IF detector.before = 0 THEN Screens ELSE {0}) :
       \E shot \in Screens :
       \E score \in Compare(IF detector.before = 0 THEN first
                            ELSE detector.before, shot) :
         /\ detector' = record_manual_step(detector, first, shot, score, now,
                                            "")
         /\ op' = DetectorLog("record_manual_step", shot, score, TRUE)
    /\ nreq' = nreq + 1
    /\ DetectorUnchanged

Reset ==
    /\ nreq < MaxDetectorOps
    /\ detector' = reset(detector)
    /\ op' = DetectorLog("reset", 0, 0, FALSE)
    /\ nreq' = nreq + 1
    /\ DetectorUnchanged

\* time passes between calls
DetectorTick ==
    /\ now < DebounceBound + MaxTime
    /\ now' = now + 1
    /\ UNCHANGED <<managerVars, session, nreq, element_cache, element_stats,
                   componentVars>>

NextDetector ==
    CaptureBefore \/ CaptureAfter \/ RecordManualStep \/ Reset \/ DetectorTick

SpecDetector == InitDetector /\ [][NextDetector]_vars

\* steps the last two calls recorded between them
PairRecorded(first, second) ==
    (IF first THEN 1 ELSE 0) + (IF second THEN 1 ELSE 0)

\* a capture_after directly after another capture_after made less than
\* debounce_seconds before
SecondOfPair ==
    /\ op'.name = "capture_after"
    /\ op.name = "capture_after"
    /\ now - op.time < detector.debounce_seconds

\* what both readings of C17 share: capture_after records nothing within
\* debounce_seconds of the last recorded step, record_manual_step records
DebounceRule ==
    LET n == Len(detector.steps)
        grew == Len(detector'.steps) = n + 1
    IN  /\ op'.name = "capture_after"
           => /\ op'.recorded <=> grew
              /\ ~grew => detector'.steps = detector.steps
              /\ grew /\ n > 0
                 => now - detector.steps[n].timestamp
                      >= detector.debounce_seconds
        /\ op'.name = "record_manual_step"
           => /\ grew
              /\ detector'.steps[n + 1].detection_method = "manual"

\* C17 as amended: capture_after never records a step within
\* debounce_seconds of the previously recorded one, record_manual_step
\* always records, and two capture_after calls made within debounce_seconds
\* of each other record at most one step between them.
DebounceAtMostOneStep ==
    [][ nreq' = nreq + 1
        => /\ DebounceRule
           /\ SecondOfPair
              => PairRecorded(op.recorded, op'.recorded) <= 1 ]_vars

\* C17 as stated: the same, but two capture_after calls made within
\* debounce_seconds of each other record exactly one step between them.
DebounceExactlyOneStep ==
    [][ nreq' = nreq + 1
        => /\ DebounceRule
           /\ SecondOfPair
              => PairRecorded(op.recorded, op'.recorded) = 1 ]_vars

\* a capture_after recorded a step, and the next one, made later but
\* inside the debounce window, recorded nothing
DebounceWitness ==
    /\ op.name = "capture_after"
    /\ op.prev_name = "capture_after"
    /\ op.prev_recorded
    /\ ~op.recorded
    /\ op.time > op.prev_time
    /\ op.time - op.prev_time < detector.debounce_seconds
    /\ Len(detector.steps) = 1

\* C18: with a 'before' image held and no step recorded within the last
\* debounce_seconds, capture_after records a step exactly when the score is
\* below the effective threshold; the recorded step compares the held
\* 'before' with the new image, which becomes the next 'before'; when
\* nothing is recorded the 'before' and the steps stay as they were.
CaptureAfterRecordsOnChange ==
    [][ /\ op'.name = "capture_after"
        /\ nreq' = nreq + 1
        /\ detector.before # 0
        /\ \/ Len(detector.steps) = 0
           \/ now - detector.steps[Len(detector.steps)].timestamp
                >= detector.debounce_seconds
        => LET n == Len(detector.steps)
               grew == Len(detector'.steps) = n + 1
               limit == IF detector.mode = "desktop" THEN desktop_threshold
                        ELSE ssim_threshold
           IN  /\ grew <=> op'.score < limit
               /\ grew => /\ detector'.before = op'.after
                          /\ detector'.steps[n + 1].before_capture
                               = detector.before
                          /\ detector'.steps[n + 1].after_capture = op'.after
                          /\ detector'.steps[n + 1].ssim_score = op'.score
               /\ ~grew => /\ detector'.before = detector.before
                           /\ detector'.steps = detector.steps ]_vars

\* two steps detected in a row: the second was compared against the image
\* the first ended with, not against the first 'before'
RollingBeforeWitness ==
    /\ op.name = "capture_after"
    /\ op.recorded
    /\ Len(detector.steps) = 2
    /\ detector.steps[1].detection_method = "ssim"
    /\ detector.steps[2].before_capture = detector.steps[1].after_capture
    /\ detector.steps[2].before_capture # detector.steps[1].before_capture
    /\ detector.before = op.after

\* C19: the recorded steps are numbered 1..n in the order they were
\* recorded, whatever calls were made.
StepsNumberedContiguously ==
    \A i \in 1..Len(detector.steps) : detector.steps[i].step_number = i

\* a detected step followed by a manual one
NumberedStepsWitness ==
    /\ Len(detector.steps) >= 2
    /\ detector.steps[1].detection_method = "ssim"
    /\ detector.steps[2].detection_method = "manual"
    /\ detector.steps[2].step_number = 2

\* -------------------------------------------------- clip_bounds_to_image
\* coordinate_transforms.py.  Rect is a plain dataclass: constructing one
\* checks nothing.
max(a, b) == IF a >= b THEN a ELSE b
min(a, b) == IF a <= b THEN a ELSE b

Rect(x, y, width, height) ==
    [x |-> x, y |-> y, width |-> width, height |-> height]

clip_bounds_to_image(bounds, image_width, image_height) ==
    LET new_x == max(0, min(bounds.x, image_width))
        new_y == max(0, min(bounds.y, image_height))
        x_clip == new_x - bounds.x
        y_clip == new_y - bounds.y
        new_width == max(1, min(bounds.width - x_clip, image_width - new_x))
        new_height == max(1, min(bounds.height - y_clip, image_height - new_y))
    IN  Rect(new_x, new_y, new_width, new_height)

\* rectangles with positive width and height, on, across and off an image
\* of up to ClipBound pixels a side
ClipRects ==
    { Rect(x, y, w, h) : x \in -1..(ClipBound + 1), y \in -1..(ClipBound + 1),
                         w \in 1..(ClipBound + 1), h \in 1..(ClipBound + 1) }

InitClip ==
    /\ InitManager({FallbackConfig(MaxRetriesBound, TtlBound, TRUE)}, {"windows"})
    /\ now = 0
    /\ vision = NewVisionCache(1, 1)
    /\ detector = NewDetector(1, "desktop")
    /\ op \in { [name |-> "input", bounds |-> r, image_width |-> W,
                 image_height |-> H, result |-> r] :
                  r \in ClipRects, W \in 1..ClipBound, H \in 1..ClipBound }

ClipBounds ==
    /\ op.name = "input"
    /\ op' = [op EXCEPT !.name = "clipped",
                        !.result = clip_bounds_to_image(op.bounds,
                                       op.image_width, op.image_height)]
    /\ UNCHANGED <<managerVars, session, now, nreq, element_cache, element_stats,
                   vision, detector>>

NextClip == ClipBounds

SpecClip == InitClip /\ [][NextClip]_vars

\* C20: the clipped rectangle lies inside the image: 0 <= x <= W,
\* 0 <= y <= H, x + width <= W, y + height <= H, width >= 1, height >= 1.
ClipResultFitsImage ==
    op.name = "clipped"
    => /\ 0 <= op.result.x /\ op.result.x <= op.image_width
       /\ 0 <= op.result.y /\ op.result.y <= op.image_height
       /\ op.result.x + op.result.width <= op.image_width
       /\ op.result.y + op.result.height <= op.image_height
       /\ op.result.width >= 1
       /\ op.result.height >= 1

\* ------------------------------------------------------ screen coordinates
\* coordinate_transforms.validate_screen_coordinates and the adapters'
\* entry points (macos_accessibility.find_element_at_coordinate,
\* WindowsAccessibility.get_element_at_point).  at_point is what the UI
\* tree holds at the point: "element" or "none".
PointCoords ==
    {MIN_REASONABLE - 1, MIN_REASONABLE, -1, 0, 5, MAX_REASONABLE,
     MAX_REASONABLE + 1}

validate_screen_coordinates(x, y) ==
    IF ~(MIN_REASONABLE <= x /\ x <= MAX_REASONABLE) THEN FALSE
    ELSE IF ~(MIN_REASONABLE <= y /\ y <= MAX_REASONABLE) THEN FALSE
    ELSE TRUE

\* both adapters: if x < 0 or y < 0: log "Invalid coordinates", return None
get_element_at_point(platform, x, y, at_point) ==
    IF x < 0 \/ y < 0 THEN "none" ELSE at_point

InitPoint ==
    /\ InitManager({FallbackConfig(MaxRetriesBound, TtlBound, TRUE)}, {"windows"})
    /\ now = 0
    /\ vision = NewVisionCache(1, 1)
    /\ detector = NewDetector(1, "desktop")
    /\ op \in { [name |-> "input", platform |-> p, x |-> x, y |-> y,
                 at_point |-> a, valid |-> FALSE, result |-> "none"] :
                  p \in {"macos", "windows"}, x \in PointCoords,
                  y \in PointCoords, a \in {"element", "none"} }

PointQuery ==
    /\ op.name = "input"
    /\ op' = [op EXCEPT !.name = "queried",
                        !.valid = validate_screen_coordinates(op.x, op.y),
                        !.result = get_element_at_point(op.platform, op.x,
                                                        op.y, op.at_point)]
    /\ UNCHANGED <<managerVars, session, now, nreq, element_cache, element_stats,
                   vision, detector>>

NextPoint == PointQuery

SpecPoint == InitPoint /\ [][NextPoint]_vars

\* C21: a point is invalid only when |x| > 10000 or |y| > 10000, and a
\* valid point, negative or not, where the UI holds an element is answered
\* with that element.
NegativePointsProcessed ==
    op.name = "queried"
    => /\ op.valid <=> /\ -10000 <= op.x /\ op.x <= 10000
                       /\ -10000 <= op.y /\ op.y <= 10000
       /\ op.valid /\ op.at_point = "element" => op.result = "element"

\* ------------------------------------------------- results as delivered
\* What each route makes of the element a collaborator reported.  The
\* reported confidence is in hundredths; it and the reported size are the
\* collaborator's to choose.
\*   "accessibility":  FallbackManager._try_accessibility_api
\*   "visual":         analyze_with_fallback, then _try_visual_fallback
\*   "render_visual":  annotation_orchestrator._fallback_to_visual
\*   "legacy":         metadata_normalization.dict_to_element_metadata
Routes == {"accessibility", "visual", "render_visual", "legacy"}
ReportedConfs == {-10, default_visual_confidence, 95, 150}
ReportedElements ==
    { [source |-> s, confidence |-> c, width |-> w, height |-> h] :
        s \in {"accessibility", "visual"}, c \in ReportedConfs,
        w \in {0, 50}, h \in {-5, 30} }

\* the record handed on; no route clamps the confidence from below or
\* calls validate() on the bounds
Delivered(route, e) ==
    [source |-> CASE route = "accessibility" -> "accessibility"
                  [] route = "legacy" -> e.source
                  [] OTHER -> "visual",
     fallback_used |-> CASE route = "accessibility" -> FALSE
                         [] route = "legacy" -> e.source = "visual"
                         [] OTHER -> TRUE,
     confidence |-> IF route = "visual" THEN CapVisual(e.confidence)
                    ELSE e.confidence,
     width |-> e.width, height |-> e.height]

InitMeta ==
    /\ InitManager({FallbackConfig(MaxRetriesBound, TtlBound, TRUE)}, {"windows"})
    /\ now = 0
    /\ vision = NewVisionCache(1, 1)
    /\ detector = NewDetector(1, "desktop")
    /\ \E r \in Routes :
       \E e \in { d \in ReportedElements :
                    \/ r = "legacy"
                    \/ d.source = IF r = "accessibility"
                                  THEN "accessibility" ELSE "visual" } :
         op = [name |-> "reported", route |-> r, element |-> e,
               result |-> NullResult]

Deliver ==
    /\ op.name = "reported"
    /\ op' = [op EXCEPT !.name = "delivered",
                        !.result = Delivered(op.route, op.element)]
    /\ UNCHANGED <<managerVars, session, now, nreq, element_cache, element_stats,
                   vision, detector>>

NextMeta == Deliver

SpecMeta == InitMeta /\ [][NextMeta]_vars

\* C22: every result handed on has its confidence within [0, 1] and bounds
\* of positive width and height, whatever was reported.
DeliveredIsNormalized ==
    op.name = "delivered"
    => /\ 0 <= op.result.confidence /\ op.result.confidence <= 100
       /\ op.result.width > 0
       /\ op.result.height > 0

\* C23: every result from the vision path has confidence at most 0.7,
\* whatever the model reported and by whichever route it is handed on.
VisionConfidenceCapped ==
    op.name = "delivered" /\ op.route \in {"visual", "render_visual"}
    => op.result.confidence <= 70

\* ------------------------------------------- editing the recorded steps
\* delete_step, merge_steps and redetect are exercised by
\* tests/desktop/test_step_detector.py but are not in step_detector.py;
\* they are written here as the detector's description and those tests
\* state them.  Steps are recorded with capture_after and
\* record_manual_step as above, in web mode with no debounce.
Renumber_Kept(steps) == steps

Renumber(steps) ==
    [k \in 1..Len(steps) |-> [steps[k] EXCEPT !.step_number = k]]

RemoveAt(steps, k) == SubSeq(steps, 1, k - 1) \o SubSeq(steps, k + 1, Len(steps))

\* delete_step(n): True when a step numbered n existed
delete_step(D, n) ==
    IF \E k \in 1..Len(D.steps) : D.steps[k].step_number = n
    THEN LET k == CHOOSE k \in 1..Len(D.steps) : D.steps[k].step_number = n
         IN  [st |-> [D EXCEPT !.steps = Renumber(RemoveAt(@, k))],
              ret |-> TRUE]
    ELSE [st |-> D, ret |-> FALSE]

Mergeable_AnyPair(D, i, j) ==
    i \in 1..Len(D.steps) /\ j \in 1..Len(D.steps) /\ i < j

\* merge_steps(i, j): both steps exist and j follows i directly
Mergeable(D, i, j) ==
    i \in 1..Len(D.steps) /\ j \in 1..Len(D.steps) /\ j = i + 1

\* merge_steps(i, j), the comparison of the first 'before' with the last
\* 'after' answering `score`; ret is whether a StepRecord is returned
merge_steps(D, i, j, score) ==
    IF Mergeable(D, i, j)
    THEN LET first == D.steps[i]
             later == D.steps[j]
             merged == [step_number |-> i,
                        before_capture |-> first.before_capture,
                        after_capture |-> later.after_capture,
                        ssim_score |-> score,
                        timestamp |-> later.timestamp,
                        description |-> IF first.description # ""
                                        THEN first.description
                                        ELSE later.description,
                        detection_method |-> "merged"]
         IN  [st |-> [D EXCEPT !.steps =
                        Renumber(SubSeq(@, 1, i - 1) \o <<merged>>
                                 \o SubSeq(@, j + 1, Len(@)))],
              ret |-> TRUE]
    ELSE [st |-> D, ret |-> FALSE]

Insignificant_AnyMethod(step, threshold) == ~(step.ssim_score < threshold)

\* redetect: a similarity-detected step whose score is not below threshold
Insignificant(step, threshold) ==
    step.detection_method = "ssim" /\ ~(step.ssim_score < threshold)

\* redetect(threshold): ret is the number of steps removed
redetect(D, threshold) ==
    LET kept == SelectSeq(D.steps, LAMBDA st : ~Insignificant(st, threshold))
    IN  [st |-> [D EXCEPT !.steps = Renumber(kept)],
         ret |-> Len(D.steps) - Len(kept)]

\* op is the last call: its arguments a and b (for redetect, the threshold
\* and the number of the first step removed), what it returned and how
\* many steps there were
EditLog(name, a, b, ret) ==
    [name |-> name, a |-> a, b |-> b, ret |-> ret,
     len_before |-> Len(detector.steps)]

InitEdit ==
    /\ InitManager({FallbackConfig(MaxRetriesBound, TtlBound, TRUE)}, {"windows"})
    /\ now = 1
    /\ vision = NewVisionCache(1, 1)
    /\ detector = capture_before(NewDetector(0, "web"), 1)
    /\ op = [name |-> "none", a |-> 0, b |-> 0, ret |-> 0, len_before |-> 0]

EditUnchanged ==
    UNCHANGED <<managerVars, session, now, element_cache, element_stats, vision>>

\* capture_after(description) on a changed screen
EditCaptureAfter ==
    /\ Len(detector.steps) < MaxEditSteps
    /\ \E shot \in Screens \ {detector.before}, score \in {50, 89},
          description \in {"", "text"} :
       \E r \in {capture_after(detector, shot, score, now, description)} :
         /\ detector' = r.st
         /\ op' = EditLog("capture_after", shot, score, r.ret)
    /\ UNCHANGED nreq
    /\ EditUnchanged

\* record_manual_step(description) on a screen that changed little
EditManualStep ==
    /\ Len(detector.steps) < MaxEditSteps
    /\ \E shot \in Screens \ {detector.before}, description \in {"", "text"} :
         /\ detector' = record_manual_step(detector, 0, shot, ssim_threshold,
                                           now, description)
         /\ op' = EditLog("record_manual_step", shot, ssim_threshold, TRUE)
    /\ UNCHANGED nreq
    /\ EditUnchanged

DeleteStep ==
    /\ nreq < MaxEdits
    /\ \E n \in 0..(Len(detector.steps) + 1) :
       \E r \in {delete_step(detector, n)} :
         /\ detector' = r.st
         /\ op' = EditLog("delete_step", n, 0, r.ret)
    /\ nreq' = nreq + 1
    /\ EditUnchanged

MergeSteps ==
    /\ nreq < MaxEdits
    /\ \E i \in 0..(Len(detector.steps) + 1), j \in 0..(Len(detector.steps) + 1) :
       \E r \in {merge_steps(detector, i, j, 60)} :
         /\ detector' = r.st
         /\ op' = EditLog("merge_steps", i, j, r.ret)
    /\ nreq' = nreq + 1
    /\ EditUnchanged

Redetect ==
    /\ nreq < MaxEdits
    /\ \E threshold \in {50, 70, 89} :
       \E r \in {redetect(detector, threshold)} :
         /\ detector' = r.st
         /\ op' = EditLog("redetect", threshold,
                          IF r.ret = 0 THEN 0
                          ELSE CHOOSE k \in 1..Len(detector.steps) :
                                 /\ Insignificant(detector.steps[k], threshold)
                                 /\ \A m \in 1..(k - 1) :
                                      ~Insignificant(detector.steps[m],
                                                     threshold),
                          r.ret)
    /\ nreq' = nreq + 1
    /\ EditUnchanged

NextEdit ==
    EditCaptureAfter \/ EditManualStep \/ DeleteStep \/ MergeSteps \/ Redetect

SpecEdit == InitEdit /\ [][NextEdit]_vars

\* C24: redetect(threshold) removes exactly the similarity-detected steps
\* whose score is not below threshold; manual (and merged) steps stay; the
\* steps that stay keep their order and content and are numbered 1..n.
RedetectRemovesInsignificant ==
    [][ op'.name = "redetect" /\ nreq' = nreq + 1
        => LET old == detector.steps
               new == detector'.steps
               stays == { k \in 1..Len(old) :
                            \/ old[k].detection_method # "ssim"
                            \/ old[k].ssim_score < op'.a }
               \* the position among those that stay of old step k
               rank(k) == Cardinality({ m \in stays : m <= k })
           IN  /\ Len(new) = Cardinality(stays)
               /\ op'.ret = Len(old) - Len(new)
               /\ \A k \in stays :
                    new[rank(k)] = [old[k] EXCEPT !.step_number = rank(k)] ]_vars

\* a detected step before a manual one was removed: the manual step, whose
\* score is not below the threshold either, stayed and moved up
RedetectWitness ==
    /\ op.name = "redetect"
    /\ op.ret >= 1
    /\ \E k \in 1..Len(detector.steps) :
         /\ detector.steps[k].detection_method = "manual"
         /\ detector.steps[k].ssim_score >= op.a
         /\ op.b >= 1
         /\ k >= op.b

\* C25: merge_steps(i, j) succeeds only when i and j are adjacent steps
\* and otherwise changes nothing; on success the two steps become one that
\* keeps the first step's description when it is not empty and the later
\* step's 'after' image, the other steps are kept, and all are numbered
\* 1..n.
MergeOnlyAdjacent ==
    [][ op'.name = "merge_steps" /\ nreq' = nreq + 1
        => LET old == detector.steps
               new == detector'.steps
               i == op'.a
               j == op'.b
           IN  IF op'.ret
               THEN /\ i \in 1..Len(old) /\ j \in 1..Len(old)
                    /\ j - i = 1 \/ i - j = 1
                    /\ Len(new) = Len(old) - 1
                    /\ old[i].description # ""
                       => new[i].description = old[i].description
                    /\ new[i].after_capture = old[j].after_capture
                    /\ new[i].before_capture = old[i].before_capture
                    /\ \A k \in 1..Len(new) : new[k].step_number = k
                    /\ \A k \in 1..(i - 1) : new[k] = old[k]
                    /\ \A k \in (i + 1)..Len(new) :
                         new[k] = [old[k + 1] EXCEPT !.step_number = k]
               ELSE detector' = detector ]_vars

\* the first two of three steps were merged: the merged step has the
\* first one's description and the third step is now the second
MergeWitness ==
    /\ op.name = "merge_steps"
    /\ op.ret = TRUE
    /\ op.a = 1
    /\ op.len_before = 3
    /\ Len(detector.steps) = 2
    /\ detector.steps[1].detection_method = "merged"
    /\ detector.steps[1].description = "text"
    /\ detector.steps[2].step_number = 2

\* C26: delete_step(n) with a step numbered n removes that one record,
\* keeps the others in order and numbers them 1..n-1 onwards without a
\* gap, and answers True; with no such step it answers False and the
\* steps are as they were.
DeleteRemovesOneStep ==
    [][ op'.name = "delete_step" /\ nreq' = nreq + 1
        => LET old == detector.steps
               new == detector'.steps
               n == op'.a
           IN  IF n \in 1..Len(old)
               THEN /\ op'.ret = TRUE
                    /\ Len(new) = Len(old) - 1
                    /\ \A k \in 1..(n - 1) : new[k] = old[k]
                    /\ \A k \in n..Len(new) :
                         new[k] = [old[k + 1] EXCEPT !.step_number = k]
               ELSE /\ op'.ret = FALSE
                    /\ detector' = detector ]_vars

\* the first of several steps was deleted and the rest moved up
DeleteWitness ==
    /\ op.name = "delete_step"
    /\ op.ret = TRUE
    /\ op.a = 1
    /\ op.len_before >= 2
    /\ Len(detector.steps) = op.len_before - 1
    /\ detector.steps[1].step_number = 1

\* ---------------------------------------------------------- cache keys
\* make_cache_key on two sets of arguments
KeyArgs ==
    { [platform |-> p, app |-> a, x |-> x, y |-> y] :
        p \in {"windows", "macos"}, a \in {NoApp, "", "unknown", "Chrome"},
        x \in {-11, -10, -1, 0, 9, 10, 100, 109, 110}, y \in {200, 209, 210} }

InitKeys ==
    /\ InitManager({FallbackConfig(MaxRetriesBound, TtlBound, TRUE)}, {"windows"})
    /\ now = 0
    /\ vision = NewVisionCache(1, 1)
    /\ detector = NewDetector(1, "desktop")
    /\ \E one \in KeyArgs, other \in KeyArgs :
         op = [name |-> "args", one |-> one, other |-> other,
               key_one |-> <<>>, key_other |-> <<>>]

MakeKeys ==
    /\ op.name = "args"
    /\ op' = [op EXCEPT
                !.name = "keyed",
                !.key_one = make_cache_key(op.one.platform, op.one.app,
                                           op.one.x, op.one.y),
                !.key_other = make_cache_key(op.other.platform, op.other.app,
                                             op.other.x, op.other.y)]
    /\ UNCHANGED <<managerVars, session, now, nreq, element_cache, element_stats,
                   vision, detector>>

NextKeys == MakeKeys

SpecKeys == InitKeys /\ [][NextKeys]_vars

\* C27: two keys are equal exactly when the platforms are equal, the app
\* names are equal once a missing (None or empty) name reads "unknown",
\* and x and x', and y and y', lie in the same interval [10b, 10b + 9].
KeysEqualIffSameBucket ==
    op.name = "keyed"
    => LET name(a) == IF a = NoApp \/ a = "" THEN "unknown" ELSE a
           same(u, v) == \E b \in -2..21 :
                           /\ 10 * b <= u /\ u <= 10 * b + 9
                           /\ 10 * b <= v /\ v <= 10 * b + 9
       IN  op.key_one = op.key_other
           <=> /\ op.one.platform = op.other.platform
               /\ name(op.one.app) = name(op.other.app)
               /\ same(op.one.x, op.other.x)
               /\ same(op.one.y, op.other.y)

\* a point left of the origin and a nameless app share a key with another
\* point of the same bucket and the app named "unknown"
SharedKeyWitness ==
    /\ op.name = "keyed"
    /\ op.key_one = op.key_other
    /\ op.one.x = -10 /\ op.other.x = -1
    /\ op.one.y = 200 /\ op.other.y = 209
    /\ op.one.app = NoApp /\ op.other.app = "unknown"

\* ----------------------------------------------------- AX tree search
\* macos_accessibility._find_element_at_coordinate_recursive.  A tree is
\* its elements 1..TreeNodes, element 1 the application; parent[n] < n and
\* AXChildren lists an element's children in increasing order; contains[n]
\* is _point_in_bounds for the point asked about.  An element that
\* contains the point lies in a parent that does.  0 is None.
AXTrees ==
    { t \in [parent : [1..TreeNodes -> 0..(TreeNodes - 1)],
             contains : [1..TreeNodes -> BOOLEAN]] :
        /\ t.parent[1] = 0
        /\ \A n \in 2..TreeNodes :
             /\ t.parent[n] \in 1..(n - 1)
             /\ t.contains[n] => t.contains[t.parent[n]] }

AXChildren(t, n) == { c \in 1..TreeNodes : t.parent[c] = n }

RECURSIVE find_element_at_coordinate_recursive(_, _, _)
find_element_at_coordinate_recursive(t, element, depth) ==
    IF depth > max_depth THEN 0
    ELSE IF ~t.contains[element] THEN 0
    ELSE IF AXChildren(t, element) = {} THEN element
    ELSE LET found == { c \in AXChildren(t, element) :
                          find_element_at_coordinate_recursive(t, c, depth + 1)
                            # 0 }
         IN  IF found = {} THEN element
             ELSE find_element_at_coordinate_recursive(
                    t, CHOOSE c \in found : \A d \in found : c <= d, depth + 1)

InitTree ==
    /\ InitManager({FallbackConfig(MaxRetriesBound, TtlBound, TRUE)}, {"windows"})
    /\ now = 0
    /\ vision = NewVisionCache(1, 1)
    /\ detector = NewDetector(1, "desktop")
    /\ \E t \in AXTrees : op = [name |-> "tree", tree |-> t, result |-> 0]

FindElement ==
    /\ op.name = "tree"
    /\ op' = [op EXCEPT !.name = "searched",
                        !.result = find_element_at_coordinate_recursive(
                                     op.tree, 1, 0)]
    /\ UNCHANGED <<managerVars, session, now, nreq, element_cache, element_stats,
                   vision, detector>>

NextTree == FindElement

SpecTree == InitTree /\ [][NextTree]_vars

\* C28: the search answers an element that contains the point and is at
\* least as deep as every other element that contains it (so a container
\* none of whose children contains the point is answered itself), and None
\* when no element contains the point.
SearchReturnsDeepest ==
    op.name = "searched"
    => LET t == op.tree
           hits == { n \in 1..TreeNodes : t.contains[n] }
           \* elements on the way from n up to the application
           up[n \in 0..TreeNodes] ==
               IF n = 0 THEN {} ELSE {n} \cup up[t.parent[n]]
           depth(n) == Cardinality(up[n])
       IN  IF hits = {} THEN op.result = 0
           ELSE /\ op.result \in hits
                /\ \A m \in hits : depth(m) <= depth(op.result)

\* --------------------------------------------------------- CaptureSession
\* capture_session.py.  The calls of the session's owner run one after the
\* other on one thread; the callbacks of the hotkey listener run on the
\* listener's thread.  Neither takes CaptureSession._lock around _state
\* (only undo_last_step takes it), so a call and a callback interleave
\* between the test of _state and what follows the test.  session.main and
\* session.hotkey are the positions of the two threads.

\* CaptureSession.start
start(S, use_hotkeys, has_pynput, mkdir_ok) ==
    IF S.state # "idle" THEN [session |-> S, ret |-> "RuntimeError"]
    ELSE IF ~mkdir_ok THEN [session |-> S, ret |-> "OSError"]
    ELSE [session |-> [S EXCEPT !.started = TRUE, !.state = "recording",
                                !.listener = use_hotkeys /\ has_pynput],
          ret |-> "recording"]

\* CaptureSession.pause
pause(S) ==
    IF S.state # "recording" THEN S ELSE [S EXCEPT !.state = "paused"]

\* CaptureSession.resume
resume(S) ==
    IF S.state # "paused" THEN S ELSE [S EXCEPT !.state = "recording"]

\* workflow_adapter.detector_to_workflow_data: the steps of the workflow
\* data are the detector's steps, in the detector's order
detector_to_workflow_data(steps) == steps

\* CaptureSession.finish over DesktopWorkflow.finish
finish(S) ==
    LET T == [S EXCEPT !.listener = FALSE]
    IN  IF T.state \in {"finished", "idle"} \/ ~T.started
        THEN [session |-> T, ret |-> "RuntimeError", steps |-> <<>>]
        ELSE [session |-> [T EXCEPT !.started = FALSE, !.state = "finished"],
              ret |-> "workflow_data",
              steps |-> detector_to_workflow_data(T.detected)]

\* CaptureSession.undo_last_step
undo_last_step(S) ==
    IF S.captures = <<>> THEN [session |-> S, ret |-> "none"]
    ELSE [session |-> [S EXCEPT !.captures =
                                  SubSeq(S.captures, 1, Len(S.captures) - 1)],
          ret |-> "removed"]

\* what the latest call or callback on the session was, the state and the
\* number of steps it found, what it answered, and for finish the steps of
\* the workflow data next to the steps the session reports
SessionLog(name, ret) ==
    [name |-> name, ret |-> ret, before |-> session.state,
     count |-> Len(session.captures), output |-> <<>>, reported |-> <<>>]

InitSession ==
    /\ InitManager({FallbackConfig(MaxRetriesBound, TtlBound, TRUE)}, {"windows"})
    /\ now = 0
    /\ vision = NewVisionCache(1, 1)
    /\ detector = NewDetector(1, "desktop")
    /\ op = [name |-> "new", ret |-> "none", before |-> "idle", count |-> 0,
             output |-> <<>>, reported |-> <<>>]

SessionUnchanged ==
    UNCHANGED <<managerVars, now, element_cache, element_stats, vision,
                detector>>

\* a call of the owner: the owner's thread is in no other call
OwnerCalls ==
    /\ session.main = "idle"
    /\ nreq < MaxSessionOps
    /\ nreq' = nreq + 1
    /\ SessionUnchanged

SessionStart ==
    /\ OwnerCalls
    /\ \E use_hotkeys \in BOOLEAN, has_pynput \in BOOLEAN, mkdir_ok \in BOOLEAN :
         \E r \in {start(session, use_hotkeys, has_pynput, mkdir_ok)} :
           /\ session' = r.session
           /\ op' = SessionLog("start", r.ret)

SessionPause ==
    /\ OwnerCalls
    /\ session' = pause(session)
    /\ op' = SessionLog("pause", "none")

SessionResume ==
    /\ OwnerCalls
    /\ session' = resume(session)
    /\ op' = SessionLog("resume", "none")

SessionFinish ==
    /\ OwnerCalls
    /\ \E r \in {finish(session)} :
         /\ session' = r.session
         /\ op' = [SessionLog("finish", r.ret) EXCEPT
                     !.output = r.steps,
                     !.reported = r.session.captures]

UndoLastStep ==
    /\ OwnerCalls
    /\ \E r \in {undo_last_step(session)} :
         /\ session' = r.session
         /\ op' = SessionLog("undo_last_step", r.ret)

\* CaptureSession.record_step up to the call of DesktopWorkflow.capture_step:
\* None unless the session is recording
RecordStep ==
    /\ OwnerCalls
    /\ \E force \in BOOLEAN :
         IF session.state # "recording"
         THEN /\ session' = session
              /\ op' = SessionLog("record_step", "none")
         ELSE IF ~session.started
         THEN /\ session' = session
              /\ op' = SessionLog("record_step", "RuntimeError")
         ELSE /\ session' = [session EXCEPT !.main =
                               IF force THEN "capture_forced" ELSE "capture"]
              /\ op' = SessionLog("record_step", "capturing")

\* CaptureSession.add_keyboard_step up to the screenshot of
\* DesktopWorkflow.add_manual_step: RuntimeError unless recording
AddKeyboardStep ==
    /\ OwnerCalls
    /\ IF session.state # "recording" \/ ~session.started
       THEN /\ session' = session
            /\ op' = SessionLog("add_keyboard_step", "RuntimeError")
       ELSE /\ session' = [session EXCEPT !.main = "manual"]
            /\ op' = SessionLog("add_keyboard_step", "capturing")

\* the rest of capture_step / add_manual_step: the screenshots are taken and
\* the step is appended to _captures; without force the step is dropped
\* when it is debounced or the screen did not change.  capture_step records
\* the step in the detector too (record_manual_step or capture_after);
\* add_manual_step does not go through the detector
StepCaptured ==
    /\ session.main # "idle"
    /\ \E recorded \in BOOLEAN :
         /\ session.main # "capture" => recorded
         /\ session' = [session EXCEPT
                          !.main = "idle",
                          !.captures = IF recorded
                                       THEN Append(@, session.main) ELSE @,
                          !.detected = IF recorded /\ session.main # "manual"
                                       THEN Append(@, session.main) ELSE @]
         /\ op' = SessionLog(IF session.main = "manual"
                             THEN "add_keyboard_step" ELSE "record_step",
                             IF recorded THEN "step" ELSE "none")
    /\ UNCHANGED nreq
    /\ SessionUnchanged

\* _on_pause_hotkey up to the test of _state in pause() or resume(): the
\* listener runs the callback while it is alive
HotkeyPressed ==
    /\ session.listener
    /\ session.hotkey = "idle"
    /\ session.state \in {"recording", "paused"}
    /\ session' = [session EXCEPT !.hotkey =
                     IF session.state = "recording" THEN "pause" ELSE "resume"]
    /\ op' = SessionLog("hotkey", session.state)
    /\ UNCHANGED nreq
    /\ SessionUnchanged

\* the assignment to _state in pause() or resume() on the listener's thread
HotkeyStore ==
    /\ session.hotkey # "idle"
    /\ session' = [session EXCEPT
                     !.hotkey = "idle",
                     !.state = IF session.hotkey = "pause"
                               THEN "paused" ELSE "recording"]
    /\ op' = SessionLog(session.hotkey, "hotkey")
    /\ UNCHANGED nreq
    /\ SessionUnchanged

NextSession ==
    \/ SessionStart
    \/ SessionPause
    \/ SessionResume
    \/ SessionFinish
    \/ UndoLastStep
    \/ RecordStep
    \/ AddKeyboardStep
    \/ StepCaptured
    \/ HotkeyPressed
    \/ HotkeyStore

SpecSession == InitSession /\ [][NextSession]_vars

\* C29: the state of the session changes only from idle to recording in
\* start, from recording to paused in pause, from paused to recording in
\* resume, and from recording or paused to finished in finish; start
\* outside idle and finish in idle or finished raise RuntimeError and leave
\* the state as it is, pause and resume leave it as it is in any other
\* state, and nothing changes the state of a finished session.
SessionStateMachine ==
    [][LET a == session.state
           b == session'.state
           called(name) == nreq' # nreq /\ op'.name = name
       IN  /\ a # b =>
                \/ a = "idle" /\ b = "recording" /\ op'.name = "start"
                \/ a = "recording" /\ b = "paused" /\ op'.name = "pause"
                \/ a = "paused" /\ b = "recording" /\ op'.name = "resume"
                \/ /\ a \in {"recording", "paused"}
                   /\ b = "finished"
                   /\ op'.name = "finish"
           /\ called("start") /\ a # "idle"
                => op'.ret = "RuntimeError" /\ b = a
           /\ called("finish") /\ a \in {"idle", "finished"}
                => op'.ret = "RuntimeError" /\ b = a
           /\ called("pause") /\ a # "recording" => b = a
           /\ called("resume") /\ a # "paused" => b = a
           /\ a = "finished" => b = "finished"]_vars

\* C30: a step is appended to the session only while its state is
\* recording; record_step called in any other state answers None and
\* add_keyboard_step called in any other state raises RuntimeError, and
\* neither changes the list of steps.
StepsOnlyWhileRecording ==
    [][LET called(name) == nreq' # nreq /\ op'.name = name
       IN  /\ Len(session'.captures) > Len(session.captures)
                => session.state = "recording"
           /\ called("record_step") /\ session.state # "recording"
                => /\ op'.ret = "none"
                   /\ session'.captures = session.captures
                   /\ session'.main = "idle"
           /\ called("add_keyboard_step") /\ session.state # "recording"
                => /\ op'.ret = "RuntimeError"
                   /\ session'.captures = session.captures
                   /\ session'.main = "idle"]_vars

\* C31: the steps of the workflow data that finish returns are the steps
\* the session reports at that moment, in the same order.
FinishOutputsReportedSteps ==
    op.name = "finish" /\ op.ret = "workflow_data"
    => op.output = op.reported

\* C32: whatever the interleaving of the hotkey callbacks with the calls
\* of the owner's thread, no step is recorded while the session is paused
\* (after a pause took effect and before the resume that follows it) and
\* none once it is finished.
NoStepWhilePausedOrFinished ==
    [][Len(session'.captures) > Len(session.captures)
         \/ Len(session'.detected) > Len(session.detected)
       => session.state \notin {"paused", "finished"}]_vars

\* C33: when a worker abandoned by a request that timed out completes
\* later, the per-app timeout counters, the unsupported-app marks, the
\* metrics log and the contents of ElementCache stay as they were: only the
\* requesting thread writes them.
AbandonedWorkerChangesNothing ==
    [][(\E id \in DOMAIN workers :
          workers[id] = "orphan" /\ workers'[id] = "orphan_done")
       => UNCHANGED <<app_timeout_counts, app_support_cache,
                      cache_timestamps, entries, element_cache>>]_vars

\* ------------------------------------------ the hard accessibility timeout
\* One accessibility query through _try_accessibility_api, on either host,
\* issued from the main thread or from a worker thread (the
\* orchestrator's query_thread), with a backend that answers in time or
\* not.
InitTimeout ==
    /\ InitManager({FallbackConfig(MaxRetriesBound, TtlBound, TRUE)}, Hosts)
    /\ now = 0
    /\ vision = NewVisionCache(1, 1)
    /\ detector = NewDetector(1, "desktop")
    /\ \E in \in WithOwnTimer(
                    CallInputs({NoApp, "SlowApp"}, {hostOS}, {TRUE}, {FALSE},
                               Threads, {"element", "none", "error"},
                               AdapterDurations, {"none"}, 1)) :
         op = [name |-> "query", in |-> in, outcome |-> "skipped",
               invoked |-> FALSE, timed_out |-> FALSE, blocked |-> 0]

TimedQuery ==
    /\ op.name = "query"
    /\ \E r \in {TryAccessibilityApi(ManagerState, op.in)} :
         /\ Commit(r.st)
         /\ op' = [op EXCEPT !.name = "answered", !.outcome = r.outcome,
                             !.invoked = r.invoked,
                             !.timed_out = r.timed_out,
                             !.blocked = r.blocked]
    /\ UNCHANGED <<cfg, hostOS, now, element_cache, element_stats, nreq, last,
                   vision, detector, session>>

NextTimeout == TimedQuery

SpecTimeout == InitTimeout /\ [][NextTimeout]_vars

\* C34: on either host and from either thread, the backend is called under
\* the timeout (installing it does not fail the query); a query that ends
\* within timeout_ms yields what the backend answered; one that does not
\* ends as a timeout and, for a named app, adds one to the app's timeout
\* count.
TimeoutUniform ==
    op.name = "answered"
    => /\ op.invoked
       /\ op.in.d <= cfg.timeout_ms => op.outcome = op.in.ao
       /\ op.in.d > cfg.timeout_ms
            => /\ op.timed_out
               /\ op.in.app # NoApp => app_timeout_counts[op.in.app] = 1

\* ------------------------------------------------------- visual_analyzer
\* analyze_screenshot_cached over the module-level VisionCache.  A
\* screenshot file is the bytes it holds (a positive number); the blur pass
\* with PIL makes other bytes of them (the negative), and without PIL
\* returns them as they are.
AnalyzerImages == 1..AnalyzerImageCount
AnalyzerPoints == {1, 2}

\* _blur_sensitive_regions
blur_sensitive_regions(image_bytes, has_pil) ==
    IF has_pil THEN -image_bytes ELSE image_bytes

\* analyze_screenshot: reads the file at image_path and sends its bytes
\* with the prompt for click_coords; the answer, when the service gives
\* one, is about those bytes and that point
analyze_screenshot(file, click_coords, answers) ==
    [sent |-> <<file>>,
     result |-> IF answers THEN [image |-> file, point |-> click_coords]
                ELSE [image |-> 0, point |-> 0]]

\* analyze_screenshot_cached at time t
analyze_screenshot_cached(V, file, coords, blur, has_pil, answers, t) ==
    LET g == VisionGet(V, file, t)
        hit == g.st.hits > V.hits
        image_bytes == IF blur
                       THEN blur_sensitive_regions(file, has_pil) ELSE file
        a == analyze_screenshot(file, coords, answers)
    IN  IF hit
        THEN [st |-> g.st, hit |-> TRUE, ret |-> g.ret, sent |-> <<>>]
        ELSE [st |-> IF answers
                     THEN VisionPut(g.st, image_bytes, a.result, t)
                     ELSE g.st,
              hit |-> FALSE, ret |-> a.result, sent |-> a.sent]

\* op.analysed is, for each file, when the service last answered for it
\* (-1: never)
InitAnalyzer ==
    /\ InitManager({FallbackConfig(MaxRetriesBound, TtlBound, TRUE)}, {"windows"})
    /\ now = 0
    /\ vision = NewVisionCache(TtlBound, 2 * AnalyzerImageCount)
    /\ detector = NewDetector(1, "desktop")
    /\ op = [name |-> "none", image |-> 0, point |-> 0, blur |-> FALSE,
             has_pil |-> FALSE, hit |-> FALSE,
             ret |-> [image |-> 0, point |-> 0], sent |-> <<>>,
             analysed |-> [k \in AnalyzerImages |-> -1]]

AnalyzeCached ==
    /\ nreq < MaxAnalyses
    /\ \E file \in AnalyzerImages, click_coords \in AnalyzerPoints,
          blur_sensitive \in BOOLEAN, has_pil \in BOOLEAN,
          answers \in BOOLEAN :
       \E r \in {analyze_screenshot_cached(vision, file, click_coords,
                                            blur_sensitive, has_pil, answers,
                                            now)} :
         /\ vision' = r.st
         /\ op' = [name |-> "analyze", image |-> file, point |-> click_coords,
                   blur |-> blur_sensitive, has_pil |-> has_pil,
                   hit |-> r.hit, ret |-> r.ret, sent |-> r.sent,
                   analysed |-> IF ~r.hit /\ answers
                                THEN [op.analysed EXCEPT ![file] = now]
                                ELSE op.analysed]
    /\ nreq' = nreq + 1
    /\ UNCHANGED <<managerVars, session, now, element_cache, element_stats,
                   detector>>

NextAnalyzer == AnalyzeCached \/ Tick

SpecAnalyzer == InitAnalyzer /\ [][NextAnalyzer]_vars

\* C35: whatever the options, a call for a file whose analysis succeeded
\* no longer than the TTL ago answers from the cache and sends nothing to
\* the vision service.
SecondAnalysisIsCached ==
    [][nreq' # nreq
         /\ op.analysed[op'.image] >= 0
         /\ now - op.analysed[op'.image] <= vision.ttl
       => op'.hit /\ op'.sent = <<>>]_vars

\* C36: an answer served from the cache was computed for the image and the
\* point of the request it is served to.
CachedAnswerIsForSamePoint ==
    op.name = "analyze" /\ op.hit
    => op.ret.image = op.image /\ op.ret.point = op.point

\* C38: when the blur pass is requested and PIL is there, what is sent to
\* the vision service is the output of the blur pass, never the file's own
\* bytes.
OnlyBlurredBytesSent ==
    op.name = "analyze" /\ op.blur /\ op.has_pil
    => \A i \in 1..Len(op.sent) :
         op.sent[i] = blur_sensitive_regions(op.image, TRUE)

\* ------------------------------------------------------ MetricsCollector
\* get_stats / get_app_stats over recorded events.  A rate is kept in whole
\* percent: 100 * n / total, rounded down.
Count(seq, P(_)) == Cardinality({ i \in 1..Len(seq) : P(seq[i]) })

Percent(n, total) == IF total > 0 THEN (100 * n) \div total ELSE 0

\* the rollup both get_stats and get_app_stats compute over their entries
AggregateStats(es) ==
    LET total == Len(es)
        accessibility_success ==
            Count(es, LAMBDA e : e.source = "accessibility" /\ e.success)
        accessibility_failures ==
            Count(es, LAMBDA e : e.source = "accessibility" /\ ~e.success)
        visual_fallbacks == Count(es, LAMBDA e : e.source = "visual")
    IN  [total_calls |-> total,
         accessibility_success |-> accessibility_success,
         accessibility_failures |-> accessibility_failures,
         visual_fallbacks |-> visual_fallbacks,
         success_rate |-> Percent(accessibility_success + visual_fallbacks,
                                  total),
         fallback_rate |-> Percent(visual_fallbacks, total)]

\* MetricsCollector.get_stats
get_stats(es) == AggregateStats(es)

\* MetricsCollector.get_app_stats: _app_entries[app_name] holds the events
\* recorded with that app name
get_app_stats(es, app_name) ==
    AggregateStats(SelectSeq(es, LAMBDA e : e.app_name = app_name))

InitMetrics ==
    /\ InitManager({FallbackConfig(MaxRetriesBound, TtlBound, TRUE)}, {"windows"})
    /\ now = 0
    /\ vision = NewVisionCache(1, 1)
    /\ detector = NewDetector(1, "desktop")
    /\ op = [name |-> "stats", app |-> "SlowApp", stats |-> get_stats(<<>>),
             app_stats |-> get_app_stats(<<>>, "SlowApp")]

\* record_event with what the manager records (an accessibility success,
\* a visual fallback that found an element or did not), then the rollups
RecordMetric ==
    /\ Len(entries) < MaxEvents
    /\ \E app \in Apps \cup {NoApp}, src \in {"accessibility", "visual"},
          ok \in BOOLEAN, asked \in Apps :
         \E S \in {RecordEvent(ManagerState, app, src, ok, 1,
                                IF src = "visual" THEN "timeout" ELSE "none")} :
           /\ entries' = S.entries
           /\ op' = [name |-> "stats", app |-> asked,
                     stats |-> get_stats(S.entries),
                     app_stats |-> get_app_stats(S.entries, asked)]
    /\ UNCHANGED <<cfg, hostOS, now, app_timeout_counts, app_support_cache,
                   cache_timestamps, cache_hits, cache_misses, workers,
                   containers, element_cache, element_stats, nreq, last,
                   vision, detector, session>>

NextMetrics == RecordMetric

SpecMetrics == InitMetrics /\ [][NextMetrics]_vars

\* C37: the success rate of get_stats is the share of recorded events with
\* success = true, and that of get_app_stats the share among the events of
\* the app; both are 0 when there is no event.
SuccessRateIsShareOfSuccesses ==
    LET mine == SelectSeq(entries, LAMBDA e : e.app_name = op.app)
        ok(es) == Count(es, LAMBDA e : e.success)
    IN  /\ op.stats.success_rate = Percent(ok(entries), Len(entries))
        /\ op.app_stats.success_rate = Percent(ok(mine), Len(mine))

\* C39: a put leaves its value stored under its key, also when the key was
\* already present, and a get that hits answers the value stored under the
\* key: so a hit answers the value most recently put.
GetReturnsLatestPut ==
    [][/\ nreq' # nreq /\ op'.name = "put"
            /\ op'.key \in CachedKeys(element_cache')
          => CachedValue(element_cache', op'.key) = op'.value
       /\ nreq' # nreq /\ op'.name = "get" /\ op'.hit
          => op'.value = CachedValue(element_cache, op'.key)]_vars

\* C40: a put for an image that is already cached leaves the same keys in
\* the cache, also when the cache is full, and the entry of the image holds
\* the elements put and the time of the put.
PutOnCachedKeepsOthers ==
    [][nreq' # nreq /\ op'.name = "put"
         /\ VisionHash(op'.image) \in VisionKeys(vision.cache)
       => /\ VisionKeys(vision'.cache) = VisionKeys(vision.cache)
          /\ Len(vision'.cache) = Len(vision.cache)
          /\ LET e == vision'.cache[VisionIndex(vision'.cache,
                                                VisionHash(op'.image))]
             IN  /\ e.timestamp = now
                 /\ e.elements = op'.put_elements[op'.image]]_vars

====
